---- MODULE Spec2Model ----
(***************************************************************************)
(* A model of the SSDP discovery core of rust-upnp: the HTTPU codec and    *)
(* UDP transport (src/common/httpu), the search engine                     *)
(* (src/discovery/search.rs) and the notify engine (src/ssdp/notify.rs).   *)
(*                                                                         *)
(* Rust strings are modelled as sequences of one-character strings, so     *)
(* that prefix tests, regular expressions, splitting and formatting are    *)
(* computed character by character as the code computes them.              *)
(* Option<T> is modelled as a sequence of length 0 (None) or 1 (Some).     *)
(***************************************************************************)
EXTENDS Integers, Sequences, FiniteSets, TLC

VARIABLES
    pc,         \* position of the call in progress ("idle" when none)
    op,         \* the public function that was called
    options,    \* the Options value passed to it
    request,    \* the Request built by the RequestBuilder
    to_address, \* destination handed to multicast / multicast_once
    sockets,    \* the UDP sockets created so far, in order
    sent,       \* datagrams accepted by send_to, in order
    recvs,      \* number of recv_from calls made by the call in progress
    arrived,    \* datagrams recv_from has delivered to the call in progress
    responses,  \* the Vec<Response> multicast_using is filling
    raw_responses, \* what multicast returned to the search function
    result,     \* what the call returned
    device,     \* the Device the notify functions mutate
    hist,       \* history of the notify calls: initial boot_id, counters
    fn_call,    \* pure-function harness: the function applied and its input
    fn_ret,     \* pure-function harness: the value returned
    clock       \* seconds the call has spent in recv_from since its send

vars ==
    <<pc, op, options, request, to_address, sockets, sent, recvs, arrived,
      responses, raw_responses, result, device, hist, fn_call, fn_ret,
      clock>>

-----------------------------------------------------------------------------
(* Strings, Option and Result                                              *)

None ==
    <<>>

Some(v) ==
    <<v>>

Take(s, n) ==
    SubSeq(s, 1, n)

Drop(s, n) ==
    SubSeq(s, n + 1, Len(s))

\* str::starts_with
StartsWith(s, p) ==
    Len(s) >= Len(p) /\ Take(s, Len(p)) = p

\* position of the first occurrence of character c in s, 0 when absent
IndexOf(s, c) ==
    IF \E i \in 1..Len(s) : s[i] = c
    THEN CHOOSE i \in 1..Len(s) : s[i] = c /\ \A j \in 1..(i - 1) : s[j] # c
    ELSE 0

\* the regex class "." : any character except a line feed
NoLineFeed(s) ==
    \A i \in 1..Len(s) : s[i] # "\n"

Ok(v) ==
    [ok |-> TRUE, val |-> v, err |-> "none", source |-> "none",
     name |-> "none"]

Err(kind, source, name) ==
    [ok |-> FALSE, val |-> None, err |-> kind, source |-> source,
     name |-> name]

-----------------------------------------------------------------------------
(* Protocol constants                                                      *)

MULTICAST_ADDRESS ==
    <<"2","3","9",".","2","5","5",".","2","5","5",".","2","5","0",":","1","9","0","0">>   \* "239.255.255.250:1900"

HTTP_PROTOCOL_NAME ==
    <<"H","T","T","P">>   \* "HTTP"

HTTP_PROTOCOL_VERSION ==
    <<"1",".","1">>   \* "1.1"

HTTP_MATCH_ANY_RESOURCE ==
    <<"*">>

HTTP_HEADER_SEP ==
    <<":">>

HTTP_HEADER_LINE_SEP ==
    <<"\r","\n">>   \* "\r\n"

HTTP_EXTENSION ==
    <<"\"","s","s","d","p",":","d","i","s","c","o","v","e","r","\"">>   \* "'ssdp:discover'"

HTTP_METHOD_NOTIFY ==
    <<"N","O","T","I","F","Y">>   \* "NOTIFY"

HTTP_METHOD_SEARCH ==
    <<"M","-","S","E","A","R","C","H">>   \* "M-SEARCH"

HTTP_HEADER_BOOTID ==
    <<"B","O","O","T","I","D",".","U","P","N","P",".","O","R","G">>   \* "BOOTID.UPNP.ORG"

HTTP_HEADER_CACHE_CONTROL ==
    <<"C","A","C","H","E","-","C","O","N","T","R","O","L">>   \* "CACHE-CONTROL"

HTTP_HEADER_CONFIGID ==
    <<"C","O","N","F","I","G","I","D",".","U","P","N","P",".","O","R","G">>   \* "CONFIGID.UPNP.ORG"

HTTP_HEADER_CP_FN ==
    <<"C","P","F","N",".","U","P","N","P",".","O","R","G">>   \* "CPFN.UPNP.ORG"

HTTP_HEADER_CP_UUID ==
    <<"C","P","U","U","I","D",".","U","P","N","P",".","O","R","G">>   \* "CPUUID.UPNP.ORG"

HTTP_HEADER_DATE ==
    <<"D","A","T","E">>

HTTP_HEADER_EXT ==
    <<"E","X","T">>

HTTP_HEADER_HOST ==
    <<"H","O","S","T">>   \* "HOST"

HTTP_HEADER_LOCATION ==
    <<"L","O","C","A","T","I","O","N">>   \* "LOCATION"

HTTP_HEADER_MAN ==
    <<"M","A","N">>   \* "MAN"

HTTP_HEADER_MX ==
    <<"M","X">>   \* "MX"

HTTP_HEADER_NT ==
    <<"N","T">>   \* "NT"

HTTP_HEADER_NTS ==
    <<"N","T","S">>   \* "NTS"

HTTP_HEADER_NEXT_BOOTID ==
    <<"N","E","X","T","B","O","O","T","I","D",".","U","P","N","P",".","O","R","G">>   \* "NEXTBOOTID.UPNP.ORG"

HTTP_HEADER_SEARCH_PORT ==
    <<"S","E","A","R","C","H","P","O","R","T",".","U","P","N","P",".","O","R","G">>   \* "SEARCHPORT.UPNP.ORG"

HTTP_HEADER_SECURE_LOCATION ==
    <<"S","E","C","U","R","E","L","O","C","A","T","I","O","N",".","U","P","N","P",".","O","R","G">>   \* "SECURELOCATION.UPNP.ORG"

HTTP_HEADER_SERVER ==
    <<"S","E","R","V","E","R">>   \* "SERVER"

HTTP_HEADER_TCP_PORT ==
    <<"T","C","P","P","O","R","T",".","U","P","N","P",".","O","R","G">>   \* "TCPPORT.UPNP.ORG"

HTTP_HEADER_ST ==
    <<"S","T">>   \* "ST"

HTTP_HEADER_USER_AGENT ==
    <<"U","S","E","R","-","A","G","E","N","T">>   \* "USER-AGENT"

HTTP_HEADER_USN ==
    <<"U","S","N">>   \* "USN"

NTS_ALIVE ==
    <<"s","s","d","p",":","a","l","i","v","e">>   \* "ssdp:alive"

NTS_BYE ==
    <<"s","s","d","p",":","b","y","e","b","y","e">>   \* "ssdp:byebye"

NTS_UPDATE ==
    <<"s","s","d","p",":","u","p","d","a","t","e">>   \* "ssdp:update"


UPNP_STRING ==
    <<"U","P","n","P">>   \* "UPnP"

-----------------------------------------------------------------------------
(* SearchTarget and its codec                                              *)

ST_ALL ==
    <<"s","s","d","p",":",":","a","l","l">>   \* "ssdp::all"

ST_ROOT ==
    <<"u","p","n","p",":","r","o","o","t","d","e","v","i","c","e">>   \* "upnp:rootdevice"

ST_UUID ==
    <<"u","u","i","d",":">>   \* "uuid:"

ST_URN ==
    <<"u","r","n",":">>   \* "urn:"

ST_URN_DEVICE ==
    <<"u","r","n",":","s","c","h","e","m","a","s","-","u","p","n","p","-","o","r","g",":","d","e","v","i","c","e",":">>   \* "urn:schemas-upnp-org:device:"

ST_URN_SERVICE ==
    <<"u","r","n",":","s","c","h","e","m","a","s","-","u","p","n","p","-","o","r","g",":","s","e","r","v","i","c","e",":">>   \* "urn:schemas-upnp-org:service:"

ST_DEVICE ==
    <<"d","e","v","i","c","e">>   \* "device"

ST_SERVICE ==
    <<"s","e","r","v","i","c","e">>   \* "service"

\* enum SearchTarget: a tag and up to two strings
SearchTarget(tag, a, b) ==
    [tag |-> tag, a |-> a, b |-> b]

All ==
    SearchTarget("All", <<>>, <<>>)

RootDevice ==
    SearchTarget("RootDevice", <<>>, <<>>)

Device(u) ==
    SearchTarget("Device", u, <<>>)

DeviceType(d) ==
    SearchTarget("DeviceType", d, <<>>)

ServiceType(s) ==
    SearchTarget("ServiceType", s, <<>>)

DomainDeviceType(dom, d) ==
    SearchTarget("DomainDeviceType", dom, d)

DomainServiceType(dom, s) ==
    SearchTarget("DomainServiceType", dom, s)

\* impl Display for SearchTarget
SearchTarget_to_string(t) ==
    CASE t.tag = "All" -> ST_ALL
      [] t.tag = "RootDevice" -> ST_ROOT
      [] t.tag = "Device" -> ST_UUID \o t.a
      [] t.tag = "DeviceType" -> ST_URN_DEVICE \o t.a
      [] t.tag = "ServiceType" -> ST_URN_SERVICE \o t.a
      [] t.tag = "DomainDeviceType" ->
            ST_URN \o t.a \o <<":">> \o ST_DEVICE \o <<":">> \o t.b
      [] t.tag = "DomainServiceType" ->
            ST_URN \o t.a \o <<":">> \o ST_SERVICE \o <<":">> \o t.b

\* the regex ^urn:([^:]+):(device|service):(.+)$ applied to x; the captures
\* are g1, g2 and g3.  [^:]+ cannot cross a colon and must be followed by
\* one, so group 1 ends at the first colon after the prefix.
DOMAIN_URN_captures(x) ==
    LET body == Drop(x, Len(ST_URN))
        i == IndexOf(body, ":")
        tail == Drop(body, i)
        kind == IF StartsWith(tail, ST_DEVICE \o <<":">>) THEN ST_DEVICE
                ELSE IF StartsWith(tail, ST_SERVICE \o <<":">>) THEN ST_SERVICE
                ELSE <<>>
        rest == Drop(tail, Len(kind) + 1)
    IN  IF StartsWith(x, ST_URN) /\ i >= 2 /\ kind # <<>>
           /\ Len(rest) >= 1 /\ NoLineFeed(rest)
        THEN [matched |-> TRUE, g1 |-> Take(body, i - 1), g2 |-> kind, g3 |-> rest]
        ELSE [matched |-> FALSE, g1 |-> <<>>, g2 |-> <<>>, g3 |-> <<>>]

\* impl FromStr for SearchTarget (src/discovery/search.rs): the urn: branch
\* binds the remainder after strip_prefix("urn:") and hands that remainder
\* to the regex
SearchTarget_from_str(s) ==
    IF s = ST_ALL THEN Ok(All)
    ELSE IF s = ST_ROOT THEN Ok(RootDevice)
    ELSE IF StartsWith(s, ST_UUID) THEN Ok(Device(Drop(s, Len(ST_UUID))))
    ELSE IF StartsWith(s, ST_URN_DEVICE)
         THEN Ok(DeviceType(Drop(s, Len(ST_URN_DEVICE))))
    ELSE IF StartsWith(s, ST_URN_SERVICE)
         THEN Ok(ServiceType(Drop(s, Len(ST_URN_SERVICE))))
    ELSE IF StartsWith(s, ST_URN)
         THEN LET domain == Drop(s, Len(ST_URN))
                  captures == DOMAIN_URN_captures(domain)
              IN  IF captures.matched
                  THEN IF captures.g2 = ST_DEVICE
                       THEN Ok(DomainDeviceType(captures.g1, captures.g3))
                       ELSE Ok(DomainServiceType(captures.g1, captures.g3))
                  ELSE Err("InvalidValueForType", "none", "URN")
    ELSE Err("InvalidValueForType", "none", "SearchTarget")

\* impl FromStr for SearchTarget in the earlier revision (src/ssdp/search.rs):
\* the regex is applied to the whole string s
ssdp_SearchTarget_from_str(s) ==
    IF s = ST_ALL THEN Ok(All)
    ELSE IF s = ST_ROOT THEN Ok(RootDevice)
    ELSE IF StartsWith(s, ST_UUID) THEN Ok(Device(Drop(s, 5)))
    ELSE IF StartsWith(s, ST_URN_DEVICE) THEN Ok(DeviceType(Drop(s, 28)))
    ELSE IF StartsWith(s, ST_URN_SERVICE) THEN Ok(ServiceType(Drop(s, 29)))
    ELSE IF StartsWith(s, ST_URN)
         THEN LET captures == DOMAIN_URN_captures(s)
              IN  IF captures.matched
                  THEN IF captures.g2 = ST_DEVICE
                       THEN Ok(DomainDeviceType(captures.g1, captures.g3))
                       ELSE Ok(DomainServiceType(captures.g1, captures.g3))
                  ELSE Err("Err", "none", "()")
    ELSE Err("Err", "none", "()")

-----------------------------------------------------------------------------
(* Character classes and numbers                                           *)

DIGITS ==
    <<"0","1","2","3","4","5","6","7","8","9">>

LOWER ==
    <<"a","b","c","d","e","f","g","h","i","j","k","l","m",
      "n","o","p","q","r","s","t","u","v","w","x","y","z">>

UPPER ==
    <<"A","B","C","D","E","F","G","H","I","J","K","L","M",
      "N","O","P","Q","R","S","T","U","V","W","X","Y","Z">>

Range(s) ==
    {s[i] : i \in 1..Len(s)}

\* \d
IsDigit(c) ==
    c \in Range(DIGITS)

\* [\d\.]
IsVersionChar(c) ==
    IsDigit(c) \/ c = "."

\* [a-zA-Z0-9\-_]
IsNameChar(c) ==
    c \in Range(LOWER) \cup Range(UPPER) \cup Range(DIGITS) \cup {"-", "_"}

DigitVal(c) ==
    IndexOf(DIGITS, c) - 1

\* char::to_uppercase on the ASCII letters
UpperChar(c) ==
    IF c \in Range(LOWER) THEN UPPER[IndexOf(LOWER, c)] ELSE c

\* str::to_uppercase
to_uppercase(s) ==
    [i \in 1..Len(s) |-> UpperChar(s[i])]

\* length of the longest prefix of s whose characters all satisfy Class
PrefixLen(s, Class(_)) ==
    IF \A i \in 1..Len(s) : Class(s[i]) THEN Len(s)
    ELSE (CHOOSE i \in 1..Len(s) :
              ~Class(s[i]) /\ \A j \in 1..(i - 1) : Class(s[j])) - 1

IsSpace(c) ==
    c = " "

\* value of a non-empty string of decimal digits
RECURSIVE DecValue(_)
DecValue(s) ==
    IF Len(s) = 0 THEN 0
    ELSE 10 * DecValue(Take(s, Len(s) - 1)) + DigitVal(s[Len(s)])

\* ToString for unsigned integers (format!("{}", n), n.to_string())
RECURSIVE to_string(_)
to_string(n) ==
    IF n < 10 THEN <<DIGITS[n + 1]>>
    ELSE to_string(n \div 10) \o <<DIGITS[(n % 10) + 1]>>

U16_MAX ==
    65535

\* the digits of a non-empty digit string without its leading zeros
Canonical(s) ==
    LET IsZero(c) == c = "0"
        z == PrefixLen(s, IsZero)
    IN  IF z = Len(s) THEN <<"0">> ELSE Drop(s, z)

\* u16::from_str on a string of digits: Err on overflow
u16_from_str(s) ==
    IF Len(Canonical(s)) > 5 \/ DecValue(Canonical(s)) > U16_MAX
    THEN Err("ParseIntError", "none", "PosOverflow")
    ELSE Ok(DecValue(Canonical(s)))

-----------------------------------------------------------------------------
(* HTTPU response parser (src/common/httpu/response.rs)                    *)

BLANK_LINE ==
    <<"\r","\n","\r","\n">>

\* a byte that is not valid UTF-8
INVALID_BYTE ==
    "<0xFF>"

HTTP_SLASH ==
    <<"H","T","T","P","/">>   \* "HTTP/"

\* all.windows(4).position(|w| w == BLANK_LINE), 1-based; 0 when absent
BlankLinePosition(all) ==
    IF \E i \in 1..(Len(all) - 3) : SubSeq(all, i, i + 3) = BLANK_LINE
    THEN CHOOSE i \in 1..(Len(all) - 3) :
            /\ SubSeq(all, i, i + 3) = BLANK_LINE
            /\ \A j \in 1..(i - 1) : SubSeq(all, j, j + 3) # BLANK_LINE
    ELSE 0

\* fn split_at_body: (raw headers, body)
split_at_body(all) ==
    LET start == BlankLinePosition(all)
    IN  IF start = 0 THEN <<all, <<>>>>
        ELSE <<Take(all, start - 1), Drop(all, start + 3)>>

\* std::str::from_utf8
from_utf8(bytes) ==
    IF \E i \in 1..Len(bytes) : bytes[i] = INVALID_BYTE
    THEN Err("MessageFormat", "none", "InvalidEncoding")
    ELSE Ok(bytes)

\* position of the first "\r\n" in s, 0 when absent
LineSepPosition(s) ==
    IF \E i \in 1..(Len(s) - 1) : SubSeq(s, i, i + 1) = HTTP_HEADER_LINE_SEP
    THEN CHOOSE i \in 1..(Len(s) - 1) :
            /\ SubSeq(s, i, i + 1) = HTTP_HEADER_LINE_SEP
            /\ \A j \in 1..(i - 1) : SubSeq(s, j, j + 1) # HTTP_HEADER_LINE_SEP
    ELSE 0

\* headers.split(LINE_SEP).collect::<Vec<String>>()
RECURSIVE split_lines(_)
split_lines(s) ==
    LET i == LineSepPosition(s)
    IN  IF i = 0 THEN <<s>>
        ELSE <<Take(s, i - 1)>> \o split_lines(Drop(s, i + 1))

ResponseStatus(version, code, message) ==
    [protocol |-> HTTP_PROTOCOL_NAME, version |-> version, code |-> code,
     message |-> message]

\* a panic (unwrap on Err/None, arithmetic overflow in a debug build)
Panic(what) ==
    [ok |-> FALSE, val |-> None, err |-> "panic", source |-> "none",
     name |-> what]

\* fn decode_status_line: the regex ^HTTP/([\d\.]+) (\d+) (.*)$ and then
\* u16::from_str(code).unwrap()
decode_status_line(line) ==
    LET r1 == Drop(line, Len(HTTP_SLASH))
        n1 == PrefixLen(r1, IsVersionChar)
        r2 == Drop(r1, n1 + 1)
        n2 == PrefixLen(r2, IsDigit)
        r3 == Drop(r2, n2 + 1)
        matched == /\ StartsWith(line, HTTP_SLASH)
                   /\ n1 >= 1 /\ Len(r1) > n1 /\ r1[n1 + 1] = " "
                   /\ n2 >= 1 /\ Len(r2) > n2 /\ r2[n2 + 1] = " "
                   /\ NoLineFeed(r3)
        parsed == u16_from_str(Take(r2, n2))
    IN  IF ~matched THEN Err("MessageFormat", "none", "InvalidResponseStatus")
        ELSE IF ~parsed.ok THEN Panic("u16::from_str(..).unwrap()")
        ELSE IF parsed.val = 200
             THEN Ok(ResponseStatus(Take(r1, n1), parsed.val, r3))
             ELSE Err("MessageFormat", "none", "InvalidResponseStatus")

\* fn decode_header: the regex ^([a-zA-Z0-9\-_]*)[ ]*:[ ]*(.*)$
decode_header(line) ==
    LET n1 == PrefixLen(line, IsNameChar)
        r1 == Drop(line, n1)
        r2 == Drop(r1, PrefixLen(r1, IsSpace))
        r3 == Drop(r2, 1)
        value == Drop(r3, PrefixLen(r3, IsSpace))
    IN  IF Len(r2) >= 1 /\ r2[1] = ":" /\ NoLineFeed(value)
        THEN Ok(<<to_uppercase(Take(line, n1)), value>>)
        ELSE Err("MessageFormat", "none", "InvalidHeaderFormat")

\* HashMap::new()
EmptyMap ==
    [k \in {} |-> <<>>]

\* HashMap::insert
Insert(map, k, v) ==
    [n \in (DOMAIN map) \cup {k} |-> IF n = k THEN v ELSE map[n]]

\* fn decode_headers: the lines in order, stopping at the first bad one
RECURSIVE decode_headers_into(_, _)
decode_headers_into(headers, lines) ==
    IF Len(lines) = 0 THEN Ok(headers)
    ELSE LET kv == decode_header(Head(lines))
         IN  IF ~kv.ok THEN kv
             ELSE decode_headers_into(Insert(headers, kv.val[1], kv.val[2]),
                                      Tail(lines))

decode_headers(lines) ==
    decode_headers_into(EmptyMap, lines)

\* impl TryFrom<&[u8]> for Response
Response_try_from(bytes) ==
    LET parts == split_at_body(bytes)
        text == from_utf8(parts[1])
        lines == split_lines(text.val)
        status == decode_status_line(Head(lines))
        headers == decode_headers(Tail(lines))
    IN  IF ~text.ok THEN text
        ELSE IF ~status.ok THEN status
        ELSE IF ~headers.ok THEN headers
        ELSE Ok([status |-> status.val, headers |-> headers.val,
                 body |-> IF parts[2] = <<>> THEN None ELSE Some(parts[2])])

-----------------------------------------------------------------------------
(* Spec versions, product tokens and the User-Agent string                 *)

\* enum SpecVersion, ordered V10 < V11 < V20 (derive PartialOrd)
V10 ==
    10

V11 ==
    11

V20 ==
    20

SpecVersions ==
    {V10, V11, V20}

\* impl Display for SpecVersion
SpecVersion_to_string(v) ==
    CASE v = V10 -> <<"1",".","0">>
      [] v = V11 -> <<"1",".","1">>
      [] v = V20 -> <<"2",".","0">>

ProductVersion(name, version) ==
    [name |-> name, version |-> version]

\* impl Display for ProductVersion
ProductVersion_to_string(p) ==
    p.name \o <<"/">> \o p.version

\* env!("CARGO_PKG_NAME") and env!("CARGO_PKG_VERSION"): set by the build
DEFAULT_PRODUCT_NAME ==
    <<"u","p","n","p","-","r","s">>   \* "upnp-rs"

DEFAULT_PRODUCT_VERSION ==
    <<"0",".","2",".","0">>   \* "0.2.0"

\* os::platform_name() and os::platform_version(): probed from the host
PLATFORM_NAME ==
    <<"L","i","n","u","x">>   \* "Linux"

PLATFORM_VERSION ==
    <<"5",".","4">>   \* "5.4"

for_default_product ==
    ProductVersion(DEFAULT_PRODUCT_NAME, DEFAULT_PRODUCT_VERSION)

for_upnp_version(version) ==
    ProductVersion(UPNP_STRING, SpecVersion_to_string(version))

for_platform ==
    ProductVersion(PLATFORM_NAME, PLATFORM_VERSION)

\* ProductVersions::new(product, upnp, platform)
ProductVersions_new(product, upnp, platform) ==
    [product |-> product, upnp |-> upnp, platform |-> platform]

\* impl Display for ProductVersions
ProductVersions_to_string(v) ==
    ProductVersion_to_string(v.product) \o <<" ">>
        \o ProductVersion_to_string(v.upnp) \o <<" ">>
        \o ProductVersion_to_string(v.platform)

\* fn user_agent_string: the three arguments are passed to
\* ProductVersions::new in the order (upnp, product, platform)
user_agent_string(spec_version, product) ==
    ProductVersions_to_string(
        ProductVersions_new(
            for_upnp_version(spec_version),
            IF product # None THEN product[1] ELSE for_default_product,
            for_platform))

-----------------------------------------------------------------------------
(* Request and RequestBuilder                                              *)

\* RequestBuilder::new
RequestBuilder_new(message) ==
    [message |-> message, resource |-> None, headers |-> EmptyMap]

\* RequestBuilder::add_header
add_header(rq, name, value) ==
    [rq EXCEPT !.headers = Insert(rq.headers, name, value)]

NoRequest ==
    RequestBuilder_new(<<>>)

\* Request::request_line
request_line(rq) ==
    rq.message \o <<" ">>
        \o (IF rq.resource = None THEN HTTP_MATCH_ANY_RESOURCE
            ELSE rq.resource[1])
        \o <<" ">> \o HTTP_PROTOCOL_NAME \o <<"/">> \o HTTP_PROTOCOL_VERSION
        \o HTTP_HEADER_LINE_SEP

\* Request::all_headers: "k:v" for each entry, in the order the HashMap
\* iterator yields the keys, joined by the line separator
RECURSIVE all_headers(_, _)
all_headers(rq, keys) ==
    IF keys = <<>> THEN <<>>
    ELSE Head(keys) \o HTTP_HEADER_SEP \o rq.headers[Head(keys)]
             \o (IF Tail(keys) = <<>> THEN <<>>
                 ELSE HTTP_HEADER_LINE_SEP \o all_headers(rq, Tail(keys)))

\* Request::body
body ==
    HTTP_HEADER_LINE_SEP \o HTTP_HEADER_LINE_SEP

\* impl From<&Request> for String
Request_to_string(rq, keys) ==
    request_line(rq) \o all_headers(rq, keys) \o body

\* the orders in which a HashMap may yield its keys
KeyOrders(map) ==
    {keys \in [1..Cardinality(DOMAIN map) -> DOMAIN map] :
        \A i, j \in DOMAIN keys : keys[i] = keys[j] => i = j}

-----------------------------------------------------------------------------
(* Search options (src/discovery/search.rs)                                *)

ControlPoint(friendly_name, uuid, port) ==
    [friendly_name |-> friendly_name, uuid |-> uuid, port |-> port]

\* ^[\d\.]+$
UA_VERSION_is_match(s) ==
    Len(s) >= 1 /\ \A i \in 1..Len(s) : IsVersionChar(s[i])

\* validate with the upper bound of max_wait_time excluded
validate_wait_below_120(o) ==
    IF o.max_wait_time < 1 \/ o.max_wait_time >= 120
    THEN Err("InvalidValue", "Field", "max_wait_time")
    ELSE IF /\ o.spec_version >= V11
            /\ o.product_and_version # None
            /\ \/ "/" \in Range(o.product_and_version[1].name)
               \/ ~UA_VERSION_is_match(o.product_and_version[1].version)
    THEN Err("InvalidValue", "Field", "UserAgent")
    ELSE IF o.spec_version >= V20 /\ o.control_point = None
    THEN Err("MissingRequiredValue", "Field", "ControlPoint")
    ELSE IF /\ o.spec_version >= V20
            /\ o.control_point[1].friendly_name = <<>>
    THEN Err("InvalidValue", "Field", "ControlPoint")
    ELSE Ok(<<>>)

\* validate with the control point required from V1.1 on
validate_control_point_v11(o) ==
    IF o.max_wait_time < 1 \/ o.max_wait_time > 120
    THEN Err("InvalidValue", "Field", "max_wait_time")
    ELSE IF /\ o.spec_version >= V11
            /\ o.product_and_version # None
            /\ \/ "/" \in Range(o.product_and_version[1].name)
               \/ ~UA_VERSION_is_match(o.product_and_version[1].version)
    THEN Err("InvalidValue", "Field", "UserAgent")
    ELSE IF o.spec_version >= V11 /\ o.control_point = None
    THEN Err("MissingRequiredValue", "Field", "ControlPoint")
    ELSE IF /\ o.spec_version >= V11
            /\ o.control_point[1].friendly_name = <<>>
    THEN Err("InvalidValue", "Field", "ControlPoint")
    ELSE Ok(<<>>)

\* Options::validate
validate(o) ==
    IF o.max_wait_time < 1 \/ o.max_wait_time > 120
    THEN Err("InvalidValue", "Field", "max_wait_time")
    ELSE IF /\ o.spec_version >= V11
            /\ o.product_and_version # None
            /\ \/ "/" \in Range(o.product_and_version[1].name)
               \/ ~UA_VERSION_is_match(o.product_and_version[1].version)
    THEN Err("InvalidValue", "Field", "UserAgent")
    ELSE IF o.spec_version >= V20 /\ o.control_point = None
    THEN Err("MissingRequiredValue", "Field", "ControlPoint")
    ELSE IF /\ o.spec_version >= V20
            /\ o.control_point[1].friendly_name = <<>>
    THEN Err("InvalidValue", "Field", "ControlPoint")
    ELSE Ok(<<>>)

\* impl From<Options> for MulticastOptions (search)
MulticastOptions_from(o) ==
    [network_version |-> o.network_version, packet_ttl |-> o.packet_ttl,
     recv_timeout |-> o.max_wait_time]

\* search_once with USER-AGENT added for every version
search_once_build_user_agent(o) ==
    Ok(add_header(add_header(add_header(add_header(add_header(
           RequestBuilder_new(HTTP_METHOD_SEARCH),
           HTTP_HEADER_HOST, MULTICAST_ADDRESS),
           HTTP_HEADER_MAN, HTTP_EXTENSION),
           HTTP_HEADER_MX, to_string(o.max_wait_time)),
           HTTP_HEADER_ST, SearchTarget_to_string(o.search_target)),
           HTTP_HEADER_USER_AGENT,
           user_agent_string(o.spec_version, o.product_and_version)))

\* search_once, lines 199-230: the M-SEARCH it builds, or the error it
\* returns when the control point is missing
search_once_build(o) ==
    LET v10 == add_header(add_header(add_header(add_header(
                   RequestBuilder_new(HTTP_METHOD_SEARCH),
                   HTTP_HEADER_HOST, MULTICAST_ADDRESS),
                   HTTP_HEADER_MAN, HTTP_EXTENSION),
                   HTTP_HEADER_MX, to_string(o.max_wait_time)),
                   HTTP_HEADER_ST, SearchTarget_to_string(o.search_target))
        v11 == IF o.spec_version >= V11
               THEN add_header(v10, HTTP_HEADER_USER_AGENT,
                        user_agent_string(o.spec_version, o.product_and_version))
               ELSE v10
        cp == o.control_point[1]
        fn == add_header(v11, HTTP_HEADER_CP_FN, cp.friendly_name)
        uuid == IF cp.uuid # None
                THEN add_header(fn, HTTP_HEADER_CP_UUID, cp.uuid[1])
                ELSE fn
        port == IF cp.port # None
                THEN add_header(uuid, HTTP_HEADER_TCP_PORT, to_string(cp.port[1]))
                ELSE uuid
    IN  IF o.spec_version >= V20
        THEN IF o.control_point # None THEN Ok(port)
             ELSE Err("MissingRequiredValue", "Field", "control_point")
        ELSE Ok(v11)

\* search_once_to_device without the version test
search_once_to_device_build_ungated(o) ==
    Ok(add_header(add_header(add_header(add_header(
           RequestBuilder_new(HTTP_METHOD_SEARCH),
           HTTP_HEADER_HOST, MULTICAST_ADDRESS),
           HTTP_HEADER_MAN, HTTP_EXTENSION),
           HTTP_HEADER_ST, SearchTarget_to_string(o.search_target)),
           HTTP_HEADER_USER_AGENT,
           user_agent_string(o.spec_version, o.product_and_version)))

\* search_once_to_device with the MX header of search_once added
search_once_to_device_build_with_mx(o) ==
    IF o.spec_version >= V11
    THEN Ok(add_header(add_header(add_header(add_header(add_header(
                RequestBuilder_new(HTTP_METHOD_SEARCH),
                HTTP_HEADER_HOST, MULTICAST_ADDRESS),
                HTTP_HEADER_MAN, HTTP_EXTENSION),
                HTTP_HEADER_MX, to_string(o.max_wait_time)),
                HTTP_HEADER_ST, SearchTarget_to_string(o.search_target)),
                HTTP_HEADER_USER_AGENT,
                user_agent_string(o.spec_version, o.product_and_version)))
    ELSE Err("UnsupportedVersion", "none", SpecVersion_to_string(o.spec_version))

\* search_once_to_device, lines 272-292
search_once_to_device_build(o) ==
    IF o.spec_version >= V11
    THEN Ok(add_header(add_header(add_header(add_header(
                RequestBuilder_new(HTTP_METHOD_SEARCH),
                HTTP_HEADER_HOST, MULTICAST_ADDRESS),
                HTTP_HEADER_MAN, HTTP_EXTENSION),
                HTTP_HEADER_ST, SearchTarget_to_string(o.search_target)),
                HTTP_HEADER_USER_AGENT,
                user_agent_string(o.spec_version, o.product_and_version)))
    ELSE Err("UnsupportedVersion", "none", SpecVersion_to_string(o.spec_version))

-----------------------------------------------------------------------------
(* Inputs of the search calls                                              *)

\* the Options the search functions are called with
SearchOptions ==
    [spec_version : SpecVersions,
     search_target :
        {RootDevice,
         DomainServiceType(<<"a","x","i","s","-","c","o","m">>,
                           <<"B","a","s","i","c","S","e","r","v","i","c","e",":","1">>)},
     network_version : {None, Some("V6")},
     packet_ttl : {2},
     max_wait_time : {0, 1, 120, 121},
     product_and_version :
        {None,
         Some(ProductVersion(<<"p">>, <<"1",".","0">>)),
         Some(ProductVersion(<<"p","/","q">>, <<"1">>)),
         Some(ProductVersion(<<"p">>, <<"b","e","t","a">>))},
     control_point :
        {None, Some(ControlPoint(<<>>, None, None))}
            \cup {Some(ControlPoint(<<"c","p">>, u, p)) :
                    u \in {None, Some(<<"a","b","c","-","1","2","3">>)},
                    p \in {None, Some(8080)}}]

NoOptions ==
    [spec_version |-> V10]

-----------------------------------------------------------------------------
(* UDP transport (src/common/httpu/mod.rs)                                 *)

DEFAULT_BUFFER_SIZE ==
    1500

DEFAULT_RECV_TIMEOUT ==
    2

\* the most datagrams the network delivers to one call
MaxDatagrams ==
    3

U32(hi, lo) ==
    [hi |-> hi, lo |-> lo]

\* a search response as a device sends it, with every required header,
\* identified by its USN
D_RESPONSE(usn) ==
    <<"H","T","T","P","/","1",".","1"," ","2","0","0"," ","O","K","\r","\n","C","A","C","H","E","-","C","O","N","T","R","O","L",":"," ","m","a","x","-","a","g","e","=","1","8","0","0","\r","\n","D","A","T","E",":"," ","x","\r","\n","E","X","T",":","\r","\n","L","O","C","A","T","I","O","N",":"," ","h","t","t","p",":","/","/","a","\r","\n","S","E","R","V","E","R",":"," ","O","S","/","1"," ","U","P","n","P","/","1",".","1"," ","p","/","1","\r","\n","S","T",":"," ","u","p","n","p",":","r","o","o","t","d","e","v","i","c","e","\r","\n","U","S","N",":"," ">>
        \o usn \o BLANK_LINE

D_GARBAGE ==
    <<"G","A","R","B","A","G","E","\r","\n","\r","\n">>   \* "GARBAGE\r\n\r\n"

\* a response cut in the middle of a header name
D_TRUNCATED ==
    <<"H","T","T","P","/","1",".","1"," ","2","0","0"," ","O","K","\r","\n","S","T",":"," ","u","p","n","p",":","r","o","o","t","d","e","v","i","c","e","\r","\n","U","S">>

\* a response that parses and has every required header but EXT
D_NO_EXT ==
    <<"H","T","T","P","/","1",".","1"," ","2","0","0"," ","O","K","\r","\n","C","A","C","H","E","-","C","O","N","T","R","O","L",":"," ","m","a","x","-","a","g","e","=","1","8","0","0","\r","\n","D","A","T","E",":"," ","x","\r","\n","L","O","C","A","T","I","O","N",":"," ","h","t","t","p",":","/","/","a","\r","\n","S","E","R","V","E","R",":"," ","O","S","/","1"," ","U","P","n","P","/","1",".","1"," ","p","/","1","\r","\n","S","T",":"," ","u","p","n","p",":","r","o","o","t","d","e","v","i","c","e","\r","\n","U","S","N",":"," ","c","\r","\n","\r","\n">>

WellFormed ==
    {D_RESPONSE(u) : u \in {<<"a">>, <<"b">>}}

Datagrams ==
    WellFormed \cup {D_GARBAGE, D_TRUNCATED}

\* std::io::ErrorKind values recv_from reports
IOErrorKinds ==
    {"WouldBlock", "TimedOut", "ConnectionReset"}

Pending ==
    Err("pending", "none", "none")

NetworkTransport(kind) ==
    Err("NetworkTransport", "none", kind)

SearchOps ==
    {"search", "search_once", "search_once_to_device"}

\* impl From<Options> for MulticastOptions (notify, src/ssdp/notify.rs)
notify_MulticastOptions_from(o) ==
    [network_version |-> None, packet_ttl |-> o.packet_ttl,
     recv_timeout |-> DEFAULT_RECV_TIMEOUT]

\* the address family of the local bind address chosen by
\* create_multicast_socket when no interface is named
LocalFamily(mc) ==
    IF mc.network_version = Some("V6") THEN "V6" ELSE "V4"

\* SocketAddr::V4 or SocketAddr::V6
AddressFamily(addr) ==
    IF Len(addr) >= 1 /\ addr[1] = "[" THEN "V6" ELSE "V4"

transportVars ==
    <<request, to_address, sockets, sent, recvs, arrived, responses,
      raw_responses>>

notifyVars ==
    <<device, hist>>

fnVars ==
    <<fn_call, fn_ret>>

\* a search function is entered
Call(name, o, addr) ==
    /\ pc = "idle"
    /\ pc' = "validate"
    /\ op' = [name |-> name, device_address |-> addr, next_boot_id |-> U32(0, 0)]
    /\ options' = o
    /\ UNCHANGED <<transportVars, result, notifyVars, fnVars, clock>>

Call_search ==
    \E o \in SearchOptions : Call("search", o, <<>>)

Call_search_once ==
    \E o \in SearchOptions : Call("search_once", o, <<>>)

Call_search_once_to_device ==
    \E o \in SearchOptions : Call("search_once_to_device", o,
             <<"1","0",".","0",".","0",".","5",":","1","9","0","0">>)

\* the call returns r
Return(r) ==
    /\ pc' = "done"
    /\ result' = r

\* a call that goes on to build its request without validating
Options_unvalidated ==
    /\ pc = "validate"
    /\ pc' = "build"
    /\ UNCHANGED <<op, options, transportVars, result, notifyVars, fnVars, clock>>

\* options.validate()?
Options_validate ==
    /\ pc = "validate"
    /\ LET r == validate(options)
       IN  IF r.ok THEN pc' = "build" /\ UNCHANGED result ELSE Return(r)
    /\ UNCHANGED <<op, options, transportVars, notifyVars, fnVars, clock>>

\* search, line 176
Build_search ==
    /\ pc = "build" /\ op.name = "search"
    /\ Return(Err("UnsupportedOperation", "none", "search"))
    /\ UNCHANGED <<op, options, transportVars, notifyVars, fnVars, clock>>

\* the request has been built and is handed to multicast / multicast_once
Built(r, addr) ==
    IF r.ok
    THEN /\ pc' = "socket"
         /\ request' = r.val
         /\ to_address' = addr
         /\ UNCHANGED result
    ELSE /\ Return(r)
         /\ UNCHANGED <<request, to_address>>

Build_search_once ==
    /\ pc = "build" /\ op.name = "search_once"
    /\ Built(search_once_build(options), MULTICAST_ADDRESS)
    /\ UNCHANGED <<op, options, sockets, sent, recvs, arrived, responses,
                   raw_responses, notifyVars, fnVars, clock>>

Build_search_once_to_device ==
    /\ pc = "build" /\ op.name = "search_once_to_device"
    /\ Built(search_once_to_device_build(options), op.device_address)
    /\ UNCHANGED <<op, options, sockets, sent, recvs, arrived, responses,
                   raw_responses, notifyVars, fnVars, clock>>

\* the failure of multicast / multicast_once is the failure of the call
\* (the ? operator in the callers)
Fail(e) ==
    /\ Return(e)
    /\ raw_responses' = IF op.name \in SearchOps THEN e ELSE raw_responses

\* fn create_multicast_socket: bind may fail; a socket that was bound may
\* still fail a set_* or join call, or be of the wrong family
create_multicast_socket ==
    /\ pc = "socket"
    /\ LET mc == IF op.name \in SearchOps THEN MulticastOptions_from(options)
                 ELSE notify_MulticastOptions_from(options)
           socket == [read_timeout |-> mc.recv_timeout, ttl |-> mc.packet_ttl,
                      family |-> LocalFamily(mc)]
       IN  \/ /\ Fail(NetworkTransport("bind"))
              /\ UNCHANGED sockets
           \/ /\ Fail(NetworkTransport("setsockopt"))
              /\ sockets' = Append(sockets, socket)
           \/ /\ sockets' = Append(sockets, socket)
              /\ IF AddressFamily(to_address) = LocalFamily(mc)
                 THEN pc' = "send" /\ UNCHANGED <<result, raw_responses>>
                 ELSE Fail(Err("InvalidValue", "Socket", "to, local"))
    /\ UNCHANGED <<op, options, request, to_address, sent, recvs, arrived,
                   responses, notifyVars, fnVars, clock>>

\* multicast_send_using with the result of send_to ignored
multicast_send_using_unchecked ==
    /\ pc = "send"
    /\ \/ sent' = Append(sent, [request |-> request, to |-> to_address])
       \/ UNCHANGED sent
    /\ pc' = IF op.name \in SearchOps THEN "recv" ELSE "sent"
    /\ UNCHANGED <<op, options, request, to_address, sockets, recvs, arrived,
                   responses, raw_responses, result, notifyVars, fnVars, clock>>

\* fn multicast_send_using: socket.send_to(message.as_bytes(), to_address)?
multicast_send_using ==
    /\ pc = "send"
    /\ \/ /\ sent' = Append(sent, [request |-> request, to |-> to_address])
          /\ pc' = IF op.name \in SearchOps THEN "recv" ELSE "sent"
          /\ UNCHANGED <<result, raw_responses>>
       \/ /\ Fail(NetworkTransport("send_to"))
          /\ UNCHANGED sent
    /\ UNCHANGED <<op, options, request, to_address, sockets, recvs, arrived,
                   responses, notifyVars, fnVars, clock>>

\* a receive loop that keeps one response of each kind
Received_dedup(bytes) ==
    LET r == Response_try_from(bytes)
    IN  IF r.ok
        THEN /\ responses' = IF r.val \in Range(responses) THEN responses
                             ELSE Append(responses, r.val)
             /\ UNCHANGED <<pc, result, raw_responses>>
        ELSE /\ Fail(r)
             /\ UNCHANGED responses

\* what multicast_using does with the bytes of one datagram:
\* responses.push(Response::try_from(&buf[..received])?)
Received(bytes) ==
    LET r == Response_try_from(bytes)
    IN  IF r.ok
        THEN /\ responses' = Append(responses, r.val)
             /\ UNCHANGED <<pc, result, raw_responses>>
        ELSE IF r.err = "panic"
        THEN /\ pc' = "panicked"
             /\ UNCHANGED <<responses, result, raw_responses>>
        ELSE /\ Fail(r)
             /\ UNCHANGED responses

\* multicast_using, one turn of the loop in which recv_from returns Ok after
\* blocking for wait seconds: the buffer holds at most DEFAULT_BUFFER_SIZE
\* bytes of the datagram
recv_from_Ok_of(d, wait) ==
    /\ pc = "recv"
    /\ Len(arrived) < MaxDatagrams
    /\ arrived' = Append(arrived, d)
    /\ Received(IF Len(d) <= DEFAULT_BUFFER_SIZE THEN d
                ELSE Take(d, DEFAULT_BUFFER_SIZE))
    /\ recvs' = recvs + 1
    /\ clock' = clock + wait
    /\ UNCHANGED <<op, options, request, to_address, sockets, sent,
                   notifyVars, fnVars>>

\* the turn of the loop for each datagram the network may deliver
recv_from_Ok_after(wait) ==
    \E d \in Datagrams : recv_from_Ok_of(d, wait)

\* the turn of the loop with the time it takes left out
recv_from_Ok ==
    recv_from_Ok_after(0)

\* what multicast_using does when recv_from returns Err(e)
RecvFailed(kind) ==
    IF kind = "WouldBlock"
    THEN /\ pc' = "convert"
         /\ raw_responses' = Ok(responses)
         /\ UNCHANGED result
    ELSE Fail(NetworkTransport(kind))

\* multicast_using, the turn of the loop in which recv_from returns
\* Err(kind) after blocking for wait seconds
recv_from_Err_after(kind, wait) ==
    /\ pc = "recv"
    /\ RecvFailed(kind)
    /\ recvs' = recvs + 1
    /\ clock' = clock + wait
    /\ UNCHANGED <<op, options, request, to_address, sockets, sent, arrived,
                   responses, notifyVars, fnVars>>

\* the turn of the loop with the time it takes left out
recv_from_Err ==
    \E kind \in IOErrorKinds : recv_from_Err_after(kind, 0)

\* socket.set_read_timeout(Some(Duration::from_secs(options.recv_timeout)))
\* is called once, when the socket is created: the timeout bounds each
\* recv_from call on its own
read_timeout ==
    sockets[Len(sockets)].read_timeout

\* how long a recv_from that returns a datagram may have blocked: any time
\* short of the read timeout (the shortest and the longest are kept)
Waits ==
    {w \in {0, read_timeout - 1} : w >= 0 /\ w < read_timeout}

\* the I/O error kinds by which a platform reports that the read timeout of
\* a socket has run out
ReadTimeoutKinds ==
    {"WouldBlock", "TimedOut"}

\* how long a recv_from that returns an error has blocked: the whole read
\* timeout when the error reports it, any time up to it otherwise
ErrWaits(kind) ==
    IF kind \in ReadTimeoutKinds THEN {read_timeout}
    ELSE Waits

\* a blocking recv_from returns a datagram, which may lack a header
blocking_recv_from_Ok ==
    /\ pc = "recv"
    /\ \E w \in Waits : \E d \in Datagrams \cup {D_NO_EXT} :
          recv_from_Ok_of(d, w)

\* a blocking recv_from returns an error
blocking_recv_from_Err ==
    /\ pc = "recv"
    /\ \E kind \in IOErrorKinds : \E w \in ErrWaits(kind) :
          recv_from_Err_after(kind, w)

\* the Options of the calls whose duration is measured
TimedOptions ==
    {o \in SearchOptions :
        /\ o.spec_version = V10
        /\ o.search_target = RootDevice
        /\ o.network_version = None
        /\ o.product_and_version = None
        /\ o.control_point = None}

Call_search_once_timed ==
    \E o \in TimedOptions : Call("search_once", o, <<>>)
-----------------------------------------------------------------------------
(* Notify engine (src/ssdp/notify.rs)                                      *)

\* u32 values are kept as two 16-bit halves, value = hi * 65536 + lo
U32_MAX ==
    U32(65535, 65535)

\* u32 wrapping_add(1): what boot_id + 1 computes in a release build
u32_wrapping_inc(b) ==
    IF b.lo < 65535 THEN U32(b.hi, b.lo + 1)
    ELSE IF b.hi < 65535 THEN U32(b.hi + 1, 0)
    ELSE U32(0, 0)

\* four decimal digits of n < 10000, with leading zeros
Pad4(n) ==
    <<DIGITS[(n \div 1000) + 1], DIGITS[((n \div 100) % 10) + 1],
      DIGITS[((n \div 10) % 10) + 1], DIGITS[(n % 10) + 1]>>

\* u32::to_string: hi * 65536 + lo = (6 * hi + t \div 10^4) * 10^4 + t % 10^4
\* where t = 5536 * hi + lo
u32_to_string(b) ==
    LET t == 5536 * b.hi + b.lo
        high == 6 * b.hi + (t \div 10000)
    IN  IF high = 0 THEN to_string(t % 10000)
        ELSE to_string(high) \o Pad4(t % 10000)

\* utils::user_agent::make: "{OP_SYS} {UPnP/version} {product}"
user_agent_make(spec_version, product) ==
    ProductVersion_to_string(for_platform) \o <<" ">>
        \o ProductVersion_to_string(for_upnp_version(spec_version)) \o <<" ">>
        \o ProductVersion_to_string(
               IF product # None THEN product[1]
               ELSE ProductVersion(<<"R","u","s","t","-">> \o DEFAULT_PRODUCT_NAME,
                                   DEFAULT_PRODUCT_VERSION))

\* add_header when the condition holds
add_header_if(cond, rq, name, value) ==
    IF cond THEN add_header(rq, name, value) ELSE rq

\* add_header for an Option: if let Some(v) = opt { add_header(name, v) }
add_header_some(cond, rq, name, opt) ==
    IF cond /\ opt # None THEN add_header(rq, name, opt[1]) ELSE rq

\* Option<u16>::map(to_string)
port_to_string(opt) ==
    IF opt = None THEN None ELSE Some(to_string(opt[1]))

\* device_available, lines 61-91: the NOTIFY it builds
device_available_build(d, o) ==
    LET base == add_header(add_header(add_header(add_header(add_header(
                add_header(add_header(
                    RequestBuilder_new(HTTP_METHOD_NOTIFY),
                    HTTP_HEADER_HOST, MULTICAST_ADDRESS),
                    HTTP_HEADER_CACHE_CONTROL, 
                        <<"m","a","x","-","a","g","e","=">>
                            \o to_string(o.max_age)),
                    HTTP_HEADER_LOCATION, d.location),
                    HTTP_HEADER_NT, SearchTarget_to_string(d.notification_type)),
                    HTTP_HEADER_NTS, NTS_ALIVE),
                    HTTP_HEADER_SERVER,
                    user_agent_make(o.spec_version, o.product_and_version)),
                    HTTP_HEADER_USN, d.service_name)
        v11 == add_header_some(o.spec_version >= V11,
                   add_header_if(o.spec_version >= V11,
                       add_header_if(o.spec_version >= V11, base,
                           HTTP_HEADER_BOOTID, u32_to_string(d.boot_id)),
                       HTTP_HEADER_CONFIGID, to_string(d.config_id)),
                   HTTP_HEADER_SEARCH_PORT, port_to_string(d.search_port))
    IN  add_header_some(o.spec_version >= V20, v11,
            HTTP_HEADER_SECURE_LOCATION, d.secure_location)

\* device_update, lines 139-159
device_update_build(d, o, next_boot_id) ==
    LET base == add_header(add_header(add_header(add_header(add_header(
                add_header(add_header(add_header(
                    RequestBuilder_new(HTTP_METHOD_NOTIFY),
                    HTTP_HEADER_HOST, MULTICAST_ADDRESS),
                    HTTP_HEADER_LOCATION, d.location),
                    HTTP_HEADER_NT, SearchTarget_to_string(d.notification_type)),
                    HTTP_HEADER_NTS, NTS_UPDATE),
                    HTTP_HEADER_USN, d.service_name),
                    HTTP_HEADER_BOOTID, u32_to_string(d.boot_id)),
                    HTTP_HEADER_NEXT_BOOTID, u32_to_string(next_boot_id)),
                    HTTP_HEADER_CONFIGID, to_string(d.config_id))
        port == add_header_some(TRUE, base,
                    HTTP_HEADER_SEARCH_PORT, port_to_string(d.search_port))
    IN  add_header_some(o.spec_version >= V20, port,
            HTTP_HEADER_SECURE_LOCATION, d.secure_location)

\* device_unavailable, lines 192-203
device_unavailable_build(d, o) ==
    LET base == add_header(add_header(add_header(add_header(
                    RequestBuilder_new(HTTP_METHOD_NOTIFY),
                    HTTP_HEADER_HOST, MULTICAST_ADDRESS),
                    HTTP_HEADER_NT, SearchTarget_to_string(d.notification_type)),
                    HTTP_HEADER_NTS, NTS_BYE),
                    HTTP_HEADER_USN, d.service_name)
    IN  add_header_if(o.spec_version >= V11,
            add_header_if(o.spec_version >= V11, base,
                HTTP_HEADER_BOOTID, u32_to_string(d.boot_id)),
            HTTP_HEADER_CONFIGID, to_string(d.config_id))

\* the most notify calls made on the Device
MaxCalls ==
    3

\* notify::Options::default_for
NotifyOptions ==
    {[spec_version |-> v, max_age |-> 1800,
      packet_ttl |-> IF v = V10 THEN 4 ELSE 2,
      product_and_version |-> None] : v \in SpecVersions}

\* the Devices announced, with boot_id 0, 65535, 2^31 - 1, 2^32 - 2 and
\* 2^32 - 1; the URI and URL fields hold the text their Display gives
NotifyDevices ==
    {[notification_type |-> RootDevice,
      service_name |-> <<"u","u","i","d",":","a","b","c","-","1","2","3",":",":","u","p","n","p",":","r","o","o","t","d","e","v","i","c","e">>,
      location |-> <<"h","t","t","p",":","/","/","1","0",".","0",".","0",".","5","/","d",".","x","m","l">>,
      boot_id |-> b, config_id |-> 7,
      search_port |-> Some(49200),
      secure_location |-> Some(<<"h","t","t","p","s",":","/","/","1","0",".","0",".","0",".","5","/","d",".","x","m","l">>)] :
        b \in {U32(0, 0), U32(0, 65535), U32(32767, 65535), U32(65535, 65534),
               U32_MAX}}

\* a notify function is entered
Notify(name, o) ==
    /\ pc = "idle"
    /\ hist.calls < MaxCalls
    /\ pc' = "build"
    /\ op' = [name |-> name, device_address |-> <<>>, next_boot_id |-> U32(0, 0)]
    /\ options' = o
    /\ hist' = [hist EXCEPT !.calls = @ + 1, !.before = device]
    /\ result' = Pending
    /\ UNCHANGED <<transportVars, device, fnVars, clock>>

Call_device_available ==
    \E o \in NotifyOptions : Notify("device_available", o)

Call_device_update ==
    \E o \in NotifyOptions : Notify("device_update", o)

Call_device_unavailable ==
    \E o \in NotifyOptions : Notify("device_unavailable", o)

\* let next_boot_id = device.boot_id + 1: at u32::MAX the addition panics in
\* a build with overflow checks and wraps to 0 in a build without; then the
\* request is built and handed to multicast_once
NextBootId(Build(_)) ==
    \/ /\ device.boot_id # U32_MAX
       /\ op' = [op EXCEPT !.next_boot_id = u32_wrapping_inc(device.boot_id)]
       /\ Built(Ok(Build(u32_wrapping_inc(device.boot_id))), MULTICAST_ADDRESS)
    \/ /\ device.boot_id = U32_MAX
       /\ op' = [op EXCEPT !.next_boot_id = u32_wrapping_inc(device.boot_id)]
       /\ Built(Ok(Build(u32_wrapping_inc(device.boot_id))), MULTICAST_ADDRESS)
    \/ /\ device.boot_id = U32_MAX
       /\ pc' = "panicked"
       /\ UNCHANGED <<op, request, to_address, result>>

Build_device_available ==
    /\ pc = "build" /\ op.name = "device_available"
    /\ LET Build(next) == device_available_build(device, options)
       IN  NextBootId(Build)
    /\ UNCHANGED <<options, sockets, sent, recvs, arrived, responses,
                   raw_responses, notifyVars, fnVars, clock>>

\* device_update with device.boot_id assigned before multicast_once
Build_device_update_assign_first ==
    /\ pc = "build" /\ op.name = "device_update"
    /\ IF options.spec_version = V10
       THEN /\ Return(Err("Unsupported", "none", "none"))
            /\ UNCHANGED <<op, request, to_address, device>>
       ELSE /\ LET Build(next) == device_update_build(device, options, next)
               IN  NextBootId(Build)
            /\ device' = [device EXCEPT
                              !.boot_id = u32_wrapping_inc(device.boot_id)]
    /\ UNCHANGED <<options, sockets, sent, recvs, arrived, responses,
                   raw_responses, hist, fnVars, clock>>

Build_device_update ==
    /\ pc = "build" /\ op.name = "device_update"
    /\ IF options.spec_version = V10
       THEN /\ Return(Err("Unsupported", "none", "none"))
            /\ UNCHANGED <<op, request, to_address>>
       ELSE LET Build(next) == device_update_build(device, options, next)
            IN  NextBootId(Build)
    /\ UNCHANGED <<options, sockets, sent, recvs, arrived, responses,
                   raw_responses, notifyVars, fnVars, clock>>

Build_device_unavailable ==
    /\ pc = "build" /\ op.name = "device_unavailable"
    /\ LET Build(next) == device_unavailable_build(device, options)
       IN  NextBootId(Build)
    /\ UNCHANGED <<options, sockets, sent, recvs, arrived, responses,
                   raw_responses, notifyVars, fnVars, clock>>

\* multicast_once returned Ok: device.boot_id = next_boot_id; Ok(())
Notify_assign ==
    /\ pc = "sent"
    /\ device' = [device EXCEPT !.boot_id = op.next_boot_id]
    /\ hist' = [hist EXCEPT !.n_ok = @ + 1,
                            !.byebye = IF op.name = "device_unavailable"
                                       THEN Some(device.boot_id) ELSE @]
    /\ Return(Ok(<<>>))
    /\ UNCHANGED <<op, options, transportVars, fnVars, clock>>

\* the caller has the result and may call again
Notify_return ==
    /\ pc = "done"
    /\ pc' = "idle"
    /\ UNCHANGED <<op, options, transportVars, result, notifyVars, fnVars, clock>>

-----------------------------------------------------------------------------
(* Conversions applied to chosen inputs                                    *)

TargetTypes ==
    {<<"B","a","s","i","c",":","1">>,
     <<"B","a","s","i","c","S","e","r","v","i","c","e",":","1">>, <<"X">>}

TargetDomains ==
    {<<"a","x","i","s","-","c","o","m">>, <<"a">>}

\* values of each of the seven shapes of SearchTarget
SearchTargets ==
    {All, RootDevice}
        \cup {Device(u) : u \in {<<"a","b","c","-","1","2","3">>, <<"a">>, <<>>}}
        \cup {DeviceType(d) : d \in TargetTypes}
        \cup {ServiceType(s) : s \in TargetTypes}
        \cup {DomainDeviceType(dom, d) : dom \in TargetDomains, d \in TargetTypes}
        \cup {DomainServiceType(dom, s) : dom \in TargetDomains, s \in TargetTypes}

\* strings handed to from_str: every rendered target, a doubled urn: prefix
\* and strings that are no search target
TargetStrings ==
    {SearchTarget_to_string(t) : t \in SearchTargets}
        \cup {ST_URN \o <<"u","r","n",":","a","x","i","s","-","c","o","m",":","d","e","v","i","c","e",":","B","a","s","i","c",":","1">>,
              ST_URN \o <<"a","x","i","s","-","c","o","m">>,
              ST_URN \o <<"a","x","i","s","-","c","o","m",":","X">>,
              <<"X">>, <<>>}

FnCall(fn, arg, of) ==
    [fn |-> fn, arg |-> arg, of |-> of]

\* t.to_string()
SearchTarget_fmt ==
    /\ fn_call.fn = "to_string" /\ fn_ret = None
    /\ fn_ret' = Some(SearchTarget_to_string(fn_call.arg))
    /\ UNCHANGED <<pc, op, options, transportVars, result, notifyVars, fn_call, clock>>

\* the rendered string is handed to str::parse
Parse_rendered ==
    /\ fn_call.fn = "to_string" /\ fn_ret # None
    /\ \E fn \in {"from_str", "ssdp_from_str"} :
          fn_call' = FnCall(fn, fn_ret[1], Some(fn_call.arg))
    /\ fn_ret' = None
    /\ UNCHANGED <<pc, op, options, transportVars, result, notifyVars, clock>>

\* SearchTarget::from_str (src/discovery/search.rs)
SearchTarget_FromStr ==
    /\ fn_call.fn = "from_str" /\ fn_ret = None
    /\ fn_ret' = Some(SearchTarget_from_str(fn_call.arg))
    /\ UNCHANGED <<pc, op, options, transportVars, result, notifyVars, fn_call, clock>>

\* SearchTarget::from_str of the earlier revision (src/ssdp/search.rs)
ssdp_SearchTarget_FromStr ==
    /\ fn_call.fn = "ssdp_from_str" /\ fn_ret = None
    /\ fn_ret' = Some(ssdp_SearchTarget_from_str(fn_call.arg))
    /\ UNCHANGED <<pc, op, options, transportVars, result, notifyVars, fn_call, clock>>

-----------------------------------------------------------------------------
(* Search responses (src/common/headers.rs, src/discovery/search.rs)       *)

\* the headers every search response carries, in the order they are checked
REQUIRED_HEADERS_V10 ==
    <<HTTP_HEADER_CACHE_CONTROL, HTTP_HEADER_DATE, HTTP_HEADER_EXT,
      HTTP_HEADER_LOCATION, HTTP_HEADER_SERVER, HTTP_HEADER_ST,
      HTTP_HEADER_USN>>

\* fn check_required: take_while collects the required names up to the
\* first one the map holds; the error carries no names
check_required(headers, required) ==
    LET NotHeld(h) == h \notin DOMAIN headers
        missing_headers == Take(required, PrefixLen(required, NotHeld))
    IN  IF missing_headers = <<>> THEN Ok(<<>>)
        ELSE Err("MessageFormat", "none", "MissingRequiredField")

\* str::trim().is_empty()
trim_is_empty(s) ==
    \A i \in 1..Len(s) : s[i] \in {" ", "\t", "\r", "\n"}

\* fn check_empty
check_empty(header_value) ==
    IF trim_is_empty(header_value) THEN Ok(<<>>)
    ELSE Err("MessageFormat", "none", "InvalidFieldValue")

\* fn check_not_empty: the entry, or the default when absent or blank
check_not_empty(headers, name, default) ==
    IF name \in DOMAIN headers /\ ~trim_is_empty(headers[name])
    THEN headers[name] ELSE default

\* u64::MAX in decimal
U64_MAX ==
    <<"1","8","4","4","6","7","4","4","0","7","3","7","0","9","5","5","1","6","1","5">>   \* "18446744073709551615"

\* str::parse::<u64>: an optional "+" and decimal digits, Err on overflow;
\* the value is kept as its decimal digits without leading zeros
u64_from_str(s) ==
    LET Above(c) == \E i \in 1..20 :
                       /\ DigitVal(c[i]) > DigitVal(U64_MAX[i])
                       /\ \A j \in 1..(i - 1) : c[j] = U64_MAX[j]
        Value(c) == IF Len(c) > 20 \/ (Len(c) = 20 /\ Above(c))
                    THEN Err("ParseIntError", "none", "PosOverflow")
                    ELSE Ok(c)
        Digits(d) == IF d = <<>> \/ PrefixLen(d, IsDigit) # Len(d)
                     THEN Err("ParseIntError", "none", "InvalidDigit")
                     ELSE Value(Canonical(d))
    IN  IF s = <<>> THEN Err("ParseIntError", "none", "Empty")
        ELSE Digits(IF s[1] = "+" THEN Tail(s) ELSE s)

\* str::parse::<u16>
u16_parse(s) ==
    LET Digits(d) == IF d = <<>> \/ PrefixLen(d, IsDigit) # Len(d)
                     THEN Err("ParseIntError", "none", "InvalidDigit")
                     ELSE u16_from_str(d)
    IN  IF s = <<>> THEN Err("ParseIntError", "none", "Empty")
        ELSE Digits(IF s[1] = "+" THEN Tail(s) ELSE s)

\* Result::ok
Result_ok(r) ==
    IF r.ok THEN Some(r.val) ELSE None

\* fn check_parsed_value::<u64>
check_parsed_value_u64(header_value) ==
    LET Checked(parsed) ==
            IF parsed.ok THEN parsed
            ELSE Err("MessageFormat", "none", "InvalidFieldValue")
    IN  Checked(u64_from_str(header_value))

\* fn check_regex with max-age[ ]*=[ ]*(\d+): the leftmost match anywhere
\* in the value, group 1 being its digits
check_regex_max_age(header_value) ==
    LET MA == <<"m","a","x","-","a","g","e">>
        \* the digits after [ ]*=[ ]* at the start of r, <<>> when no match
        Digits(r3) == Take(r3, PrefixLen(r3, IsDigit))
        AfterEq(r2) == Digits(Drop(r2, PrefixLen(r2, IsSpace)))
        AtEq(r1) == IF r1 # <<>> /\ r1[1] = "=" THEN AfterEq(Tail(r1))
                    ELSE <<>>
        AfterName(r) == AtEq(Drop(r, PrefixLen(r, IsSpace)))
        At(i) == IF StartsWith(Drop(header_value, i - 1), MA)
                 THEN AfterName(Drop(header_value, i - 1 + Len(MA)))
                 ELSE <<>>
        First(hits) == IF hits = {}
                       THEN Err("MessageFormat", "none", "InvalidFieldValue")
                       ELSE Ok(At(CHOOSE i \in hits : \A j \in hits : i <= j))
    IN  First({i \in 1..Len(header_value) : At(i) # <<>>})

\* the regex UA_ALL,
\* ^([^/]+)/([\d\.]+),?[ ]+([^/]+)/([\d\.]+),?[ ]+([^/]+)/([\d\.]+)$ :
\* the three name/version pairs in the order they stand, or None
UA_ALL_captures(server) ==
    LET NotSlash(c) == c # "/"
        \* ([^/]+)/([\d\.]+) at the start of t: a name of n characters and
        \* a version of m
        Pair(t, n, m) ==
            [ok |-> n >= 1 /\ Len(t) > n /\ m >= 1,
             pv |-> ProductVersion(Take(t, n), SubSeq(t, n + 2, n + 1 + m)),
             rest |-> Drop(t, n + 1 + m)]
        Named(t, n) == Pair(t, n, PrefixLen(Drop(t, n + 1), IsVersionChar))
        Tok(t) == Named(t, PrefixLen(t, NotSlash))
        \* ,?[ ]+ at the start of t; [ ]+ gives its last blank back when
        \* the name after it would otherwise be empty
        Blanks(c, n) ==
            [ok |-> n >= 1,
             rest |-> Drop(c, IF n >= 2 /\ Len(c) > n /\ c[n + 1] = "/"
                              THEN n - 1 ELSE n)]
        Comma(c) == Blanks(c, PrefixLen(c, IsSpace))
        Sep(t) == Comma(IF t # <<>> /\ t[1] = "," THEN Tail(t) ELSE t)
        Third(t1, t2, t3) ==
            IF t3.ok /\ t3.rest = <<>> THEN Some(<<t1.pv, t2.pv, t3.pv>>)
            ELSE None
        Sep2(t1, t2, s2) == IF s2.ok THEN Third(t1, t2, Tok(s2.rest)) ELSE None
        Second(t1, t2) == IF t2.ok THEN Sep2(t1, t2, Sep(t2.rest)) ELSE None
        Sep1(t1, s1) == IF s1.ok THEN Second(t1, Tok(s1.rest)) ELSE None
        First(t1) == IF t1.ok THEN Sep1(t1, Sep(t1.rest)) ELSE None
    IN  First(Tok(server))

DEFAULT_DATE ==
    <<"T","h","u",","," ","0","1"," ","J","a","n"," ","1","9","7","0"," ","0","0",":","0","0",":","0","0"," ","G","M","T">>   \* "Thu, 01 Jan 1970 00:00:00 GMT"

DEFAULT_LOCATION ==
    <<"h","t","t","p",":","/","/","w","w","w",".","e","x","a","m","p","l","e",".","o","r","g">>   \* "http://www.example.org"

UNDEFINED ==
    <<"u","n","d","e","f","i","n","e","d">>   \* "undefined"

\* the headers that are not in REQUIRED_HEADERS_V10
remaining_headers(headers) ==
    [k \in (DOMAIN headers) \ Range(REQUIRED_HEADERS_V10) |-> headers[k]]

\* a test that takes every UPnP version token for 2.0
is_upnp_v20_any(versions) ==
    versions.upnp.version # <<>>

\* if versions.upnp.version == SpecVersion::V20.to_string()
is_upnp_v20(versions) ==
    versions.upnp.version = SpecVersion_to_string(V20)

\* impl TryFrom<MulticastResponse> for Response, a step for each value it
\* computes in turn; uris holds the strings URI::from_str accepts
SearchResponse_try_from(response, uris) ==
    LET headers == response.headers
        Get(name, default) == IF name \in DOMAIN headers THEN headers[name]
                              ELSE default
        Fields(versions, max_age, v20, boot_id, location, search_target,
               service_name) ==
            IF location \notin uris
            THEN Err("InvalidValue", "Header", "LOCATION")
            ELSE IF ~search_target.ok
            THEN Err("InvalidValue", "Field", "SearchTarget")
            ELSE IF service_name \notin uris
            THEN Err("InvalidValue", "Field", "URI")
            ELSE Ok([max_age |-> max_age.val,
                     date |-> check_not_empty(headers, HTTP_HEADER_DATE,
                                              DEFAULT_DATE),
                     versions |-> versions,
                     location |-> location,
                     search_target |-> search_target.val,
                     service_name |-> service_name,
                     boot_id |-> IF v20 THEN boot_id.val ELSE <<"0">>,
                     config_id |->
                         IF v20 /\ HTTP_HEADER_CONFIGID \in DOMAIN headers
                         THEN Result_ok(u64_from_str(
                                  headers[HTTP_HEADER_CONFIGID]))
                         ELSE None,
                     search_port |->
                         IF v20 /\ HTTP_HEADER_SEARCH_PORT \in DOMAIN headers
                         THEN Result_ok(u16_parse(
                                  headers[HTTP_HEADER_SEARCH_PORT]))
                         ELSE None,
                     other_headers |-> remaining_headers(headers)])
        BootId(versions, max_age, v20, boot_id) ==
            IF v20 /\ ~boot_id.ok THEN boot_id
            ELSE Fields(versions, max_age, v20, boot_id,
                        check_not_empty(headers, HTTP_HEADER_LOCATION,
                                        DEFAULT_LOCATION),
                        SearchTarget_from_str(
                            check_not_empty(headers, HTTP_HEADER_ST, UNDEFINED)),
                        check_not_empty(headers, HTTP_HEADER_USN, UNDEFINED))
        MaxAge(versions, max_age) ==
            IF ~max_age.ok THEN max_age
            ELSE BootId(versions, max_age, is_upnp_v20(versions),
                        check_parsed_value_u64(
                            Get(HTTP_HEADER_BOOTID, <<"0">>)))
        CacheControl(versions, cache) ==
            IF ~cache.ok THEN cache
            ELSE MaxAge(versions, check_parsed_value_u64(cache.val))
        Server(captures) ==
            IF captures = None THEN Err("InvalidValue", "Field", "SERVER")
            ELSE CacheControl(
                     ProductVersions_new(captures[1][3], captures[1][2],
                                         captures[1][1]),
                     check_regex_max_age(headers[HTTP_HEADER_CACHE_CONTROL]))
        Ext(ext) ==
            IF ~ext.ok THEN ext
            ELSE IF HTTP_HEADER_SERVER \notin DOMAIN headers
            THEN Panic("headers.get(HTTP_HEADER_SERVER).unwrap()")
            ELSE Server(UA_ALL_captures(headers[HTTP_HEADER_SERVER]))
        Required(required) ==
            IF ~required.ok THEN required
            ELSE IF HTTP_HEADER_EXT \notin DOMAIN headers
            THEN Panic("headers.get(HTTP_HEADER_EXT).unwrap()")
            ELSE Ext(check_empty(headers[HTTP_HEADER_EXT]))
    IN  Required(check_required(headers, REQUIRED_HEADERS_V10))

\* for raw_response in raw_responses {
\*     responses.push(raw_response.try_into()?) }
RECURSIVE try_into_all(_, _)
try_into_all(raws, uris) ==
    LET Push(r, rest) == IF ~r.ok THEN r
                         ELSE IF ~rest.ok THEN rest
                         ELSE Ok(<<r.val>> \o rest.val)
    IN  IF raws = <<>> THEN Ok(<<>>)
        ELSE Push(SearchResponse_try_from(Head(raws), uris),
                  try_into_all(Tail(raws), uris))

\* the LOCATION and USN values URI::from_str is handed
UriValues(raws) ==
    UNION {{check_not_empty(raws[i].headers, HTTP_HEADER_LOCATION,
                            DEFAULT_LOCATION),
            check_not_empty(raws[i].headers, HTTP_HEADER_USN, UNDEFINED)} :
           i \in DOMAIN raws}

\* search_once and search_once_to_device after multicast returned: every
\* raw response is converted, the first failure ends the call
Convert ==
    /\ pc = "convert"
    /\ LET Returned(r) == IF r.err = "panic"
                          THEN pc' = "panicked" /\ UNCHANGED result
                          ELSE Return(r)
       IN  \E uris \in SUBSET UriValues(raw_responses.val) :
              Returned(try_into_all(raw_responses.val, uris))
    /\ UNCHANGED <<op, options, request, to_address, sockets, sent, recvs,
                   arrived, responses, raw_responses, notifyVars, fnVars, clock>>

\* user_agent_string(spec_version, product)
UserAgentString ==
    /\ fn_call.fn = "user_agent_string" /\ fn_ret = None
    /\ fn_ret' = Some(user_agent_string(fn_call.arg.spec_version,
                                        fn_call.arg.product))
    /\ UNCHANGED <<pc, op, options, transportVars, result, notifyVars, fn_call, clock>>


\* Response::try_from(raw_response)
Response_TryFrom ==
    /\ fn_call.fn = "try_from" /\ fn_ret = None
    /\ \E uris \in SUBSET UriValues(<<fn_call.arg>>) :
          fn_ret' = Some(SearchResponse_try_from(fn_call.arg, uris))
    /\ UNCHANGED <<pc, op, options, transportVars, result, notifyVars, fn_call, clock>>

\* httpu Response::try_from(&buf[..received])
HttpuResponse_TryFrom ==
    /\ fn_call.fn = "response_try_from" /\ fn_ret = None
    /\ fn_ret' = Some(Response_try_from(fn_call.arg))
    /\ UNCHANGED <<pc, op, options, transportVars, result, notifyVars, fn_call, clock>>

\* let message: String = message.into()
Request_ToString ==
    /\ fn_call.fn = "request_to_string" /\ fn_ret = None
    /\ \E keys \in KeyOrders(fn_call.arg.headers) :
          fn_ret' = Some(Request_to_string(fn_call.arg, keys))
    /\ UNCHANGED <<pc, op, options, transportVars, result, notifyVars, fn_call, clock>>

-----------------------------------------------------------------------------
(* TypeID (src/description/mod.rs)                                         *)

UPNP_DOMAIN ==
    <<"s","c","h","e","m","a","s","-","u","p","n","p","-","o","r","g">>   \* "schemas-upnp-org"

\* enum TypeID: Device { domain, name, version } and Service { .. }
TypeID(tag, domain, name, version) ==
    [tag |-> tag, domain |-> domain, name |-> name, version |-> version]

new_device(name, version) ==
    TypeID("Device", UPNP_DOMAIN, name, version)

new_device_with_domain(domain, name, version) ==
    TypeID("Device", domain, name, version)

new_service(name, version) ==
    TypeID("Service", UPNP_DOMAIN, name, version)

new_service_with_domain(domain, name, version) ==
    TypeID("Service", domain, name, version)

\* fn split_type_and_version: type_name.split_at(sep) at the first ':', the
\* second part beginning with the character at sep
split_type_and_version(type_name) ==
    LET sep == IndexOf(type_name, ":")
    IN  IF sep = 0 THEN Err("()", "none", "none")
        ELSE Ok(<<Take(type_name, sep - 1), Drop(type_name, sep - 1)>>)

\* TypeID::device_from
device_from(st) ==
    LET Device_(split) ==
            IF ~split.ok THEN split
            ELSE Ok(new_device(split.val[1], split.val[2]))
        DomainDevice(domain, split) ==
            IF ~split.ok THEN split
            ELSE Ok(new_device_with_domain(domain, split.val[1], split.val[2]))
    IN  CASE st.tag = "DeviceType" -> Device_(split_type_and_version(st.a))
          [] st.tag = "DomainDeviceType" ->
                DomainDevice(st.a, split_type_and_version(st.b))
          [] OTHER -> Err("()", "none", "none")

\* TypeID::service_from
service_from(st) ==
    LET Service(split) ==
            IF ~split.ok THEN split
            ELSE Ok(new_service(split.val[1], split.val[2]))
        DomainService(domain, split) ==
            IF ~split.ok THEN split
            ELSE Ok(new_service_with_domain(domain, split.val[1],
                                            split.val[2]))
    IN  CASE st.tag = "ServiceType" -> Service(split_type_and_version(st.a))
          [] st.tag = "DomainServiceType" ->
                DomainService(st.a, split_type_and_version(st.b))
          [] OTHER -> Err("()", "none", "none")

\* impl Display for TypeID: "urn:{}:device:{}:{}" and "urn:{}:service:{}:{}"
TypeID_to_string(id) ==
    ST_URN \o id.domain \o <<":">>
        \o (IF id.tag = "Device" THEN ST_DEVICE ELSE ST_SERVICE)
        \o <<":">> \o id.name \o <<":">> \o id.version

\* TypeID::device_from(st)
TypeID_device_from ==
    /\ fn_call.fn = "device_from" /\ fn_ret = None
    /\ fn_ret' = Some(device_from(fn_call.arg))
    /\ UNCHANGED <<pc, op, options, transportVars, result, notifyVars, fn_call, clock>>

\* TypeID::service_from(st)
TypeID_service_from ==
    /\ fn_call.fn = "service_from" /\ fn_ret = None
    /\ fn_ret' = Some(service_from(fn_call.arg))
    /\ UNCHANGED <<pc, op, options, transportVars, result, notifyVars, fn_call, clock>>
\* the headers of a complete search response
SearchHeaders ==
    Insert(Insert(Insert(Insert(Insert(Insert(Insert(EmptyMap,
        HTTP_HEADER_CACHE_CONTROL, <<"m","a","x","-","a","g","e","=","1","8","0","0">>),
        HTTP_HEADER_DATE, <<"x">>),
        HTTP_HEADER_EXT, <<>>),
        HTTP_HEADER_LOCATION, <<"h","t","t","p",":","/","/","a">>),
        HTTP_HEADER_SERVER, <<"O","S","/","1"," ","U","P","n","P","/","1",".","1"," ","p","/","1">>),
        HTTP_HEADER_ST, ST_ROOT),
        HTTP_HEADER_USN, <<"u","u","i","d",":","a">>)

\* SERVER values: UPnP tokens 2.0, 1.1, 1.0 and 2.00, comma separators, and
\* values that are not three name/version pairs
ServerValues ==
    {<<"O","S","/","1"," ","U","P","n","P","/","2",".","0"," ","p","/","1">>,
     <<"O","S","/","1"," ","U","P","n","P","/","1",".","1"," ","p","/","1">>,
     <<"O","S","/","1",","," ","U","P","n","P","/","1",".","0",","," "," ","p","/","1">>,
     <<"O","S","/","1"," ","U","P","n","P","/","2",".","0","0"," ","p","/","1">>,
     <<"O","S"," ","U","P","n","P","/","2",".","0"," ","p","/","1">>,
     <<"O","S","/","1"," ","U","P","n","P","/","2",".","0">>}

\* insert for an Option
InsertSome(map, k, opt) ==
    IF opt = None THEN map ELSE Insert(map, k, opt[1])

\* header maps handed to the conversion: the complete one with each subset
\* of the required headers left out, and complete ones over the SERVER
\* values with and without BOOTID, CONFIGID and SEARCHPORT
HeaderMaps ==
    {[k \in (DOMAIN SearchHeaders) \ missing |-> SearchHeaders[k]] :
        missing \in SUBSET Range(REQUIRED_HEADERS_V10)}
    \cup {InsertSome(InsertSome(InsertSome(
              Insert(SearchHeaders, HTTP_HEADER_SERVER, s),
              HTTP_HEADER_BOOTID, b),
              HTTP_HEADER_CONFIGID, c),
              HTTP_HEADER_SEARCH_PORT, p) :
          s \in ServerValues,
          b \in {None, Some(<<"7">>), Some(<<"x">>),
                 Some(<<"1","8","4","4","6","7","4","4","0","7","3","7","0","9","5","5","1","6","1","6">>)},
          c \in {None, Some(<<"9">>), Some(<<"x">>)},
          p \in {None, Some(<<"1","9","0","0">>),
                 Some(<<"7","0","0","0","0">>)}}

\* status codes: 200 with and without leading zeros, other codes that fit
\* sixteen bits, and codes that do not
StatusCodes ==
    {<<"2","0","0">>, <<"0","2","0","0">>, <<"0","0","0","2","0","0">>,
     <<"4","0","4">>, <<"0">>, <<"6","5","5","3","5">>,
     <<"6","5","5","3","6">>, <<"7","0","0","0","0">>,
     <<"9","9","9","9","9","9","9","9","9","9","9">>}

\* a datagram that is a status line with the given code and no headers
D_STATUS(code) ==
    HTTP_SLASH \o <<"1",".","1"," ">> \o code \o <<" ","O","K">> \o BLANK_LINE

\* the names add_header is called with, in order, to build the Requests
AddHeaderOrder ==
    <<HTTP_HEADER_HOST, HTTP_HEADER_MAN, HTTP_HEADER_ST>>

\* requests with no resource and with one, with zero to three headers
Requests ==
    {[message |-> m, resource |-> r, headers |-> h] :
        m \in {HTTP_METHOD_SEARCH, HTTP_METHOD_NOTIFY},
        r \in {None, Some(<<"/","x">>)},
        h \in {EmptyMap,
               Insert(EmptyMap, HTTP_HEADER_HOST, MULTICAST_ADDRESS),
               Insert(Insert(EmptyMap, HTTP_HEADER_HOST, MULTICAST_ADDRESS),
                      HTTP_HEADER_MAN, HTTP_EXTENSION),
               Insert(Insert(Insert(EmptyMap,
                      HTTP_HEADER_HOST, MULTICAST_ADDRESS),
                      HTTP_HEADER_MAN, HTTP_EXTENSION),
                      HTTP_HEADER_ST, ST_ALL)}}

\* the calls made on the pure functions
FnCalls ==
    {FnCall("to_string", t, None) : t \in SearchTargets}
        \cup {FnCall(fn, s, None) :
                fn \in {"from_str", "ssdp_from_str"}, s \in TargetStrings}
        \cup {FnCall("user_agent_string", [spec_version |-> v, product |-> p],
                     None) :
                v \in SpecVersions,
                p \in {None, Some(ProductVersion(<<"p">>, <<"1",".","0">>))}}
        \cup {FnCall("try_from",
                     [status |-> ResponseStatus(<<"1",".","1">>, 200, <<"O","K">>),
                      headers |-> h, body |-> None], None) :
              h \in HeaderMaps}
        \cup {FnCall("response_try_from", D_STATUS(c), Some(c)) :
              c \in StatusCodes}
        \cup {FnCall("request_to_string", rq, None) : rq \in Requests}
        \cup {FnCall(fn, t, None) :
                fn \in {"device_from", "service_from"}, t \in SearchTargets}

NoDevice ==
    [boot_id |-> U32(0, 0)]

NoHist ==
    [boot0 |-> U32(0, 0), n_ok |-> 0, calls |-> 0, before |-> NoDevice,
     byebye |-> None]

NoCall ==
    [fn |-> "none", arg |-> <<>>, of |-> None]

Init ==
    /\ pc = "idle"
    /\ op = [name |-> "none", device_address |-> <<>>, next_boot_id |-> U32(0, 0)]
    /\ options = NoOptions
    /\ request = NoRequest
    /\ to_address = <<>>
    /\ sockets = <<>>
    /\ sent = <<>>
    /\ recvs = 0
    /\ arrived = <<>>
    /\ responses = <<>>
    /\ raw_responses = Pending
    /\ result = Pending
    /\ device = NoDevice
    /\ hist = NoHist
    /\ fn_call = NoCall
    /\ fn_ret = None
    /\ clock = 0

Next ==
    \/ Call_search
    \/ Call_search_once
    \/ Call_search_once_to_device
    \/ Options_validate
    \/ Build_search
    \/ Build_search_once
    \/ Build_search_once_to_device
    \/ create_multicast_socket
    \/ multicast_send_using
    \/ recv_from_Ok
    \/ recv_from_Err
    \/ Convert

Spec ==
    Init /\ [][Next]_vars

\* the search call with the time spent in recv_from measured
NextTimed ==
    \/ Call_search_once_timed
    \/ Options_validate
    \/ Build_search_once
    \/ create_multicast_socket
    \/ multicast_send_using
    \/ blocking_recv_from_Ok
    \/ blocking_recv_from_Err
    \/ Convert

SpecTimed ==
    Init /\ [][NextTimed]_vars

InitNotify ==
    /\ pc = "idle"
    /\ op = [name |-> "none", device_address |-> <<>>, next_boot_id |-> U32(0, 0)]
    /\ options = NoOptions
    /\ request = NoRequest
    /\ to_address = <<>>
    /\ sockets = <<>>
    /\ sent = <<>>
    /\ recvs = 0
    /\ arrived = <<>>
    /\ responses = <<>>
    /\ raw_responses = Pending
    /\ result = Pending
    /\ device \in NotifyDevices
    /\ hist = [boot0 |-> device.boot_id, n_ok |-> 0, calls |-> 0,
               before |-> device, byebye |-> None]
    /\ fn_call = NoCall
    /\ fn_ret = None
    /\ clock = 0

NextNotify ==
    \/ Call_device_available
    \/ Call_device_update
    \/ Call_device_unavailable
    \/ Build_device_available
    \/ Build_device_update
    \/ Build_device_unavailable
    \/ create_multicast_socket
    \/ multicast_send_using
    \/ Notify_assign
    \/ Notify_return

SpecNotify ==
    InitNotify /\ [][NextNotify]_vars

\* one call, a search or a notification, on the transport
NextOrder ==
    \/ Call_search_once_timed
    \/ Options_validate
    \/ Build_search_once
    \/ Call_device_available
    \/ Call_device_update
    \/ Call_device_unavailable
    \/ Build_device_available
    \/ Build_device_update
    \/ Build_device_unavailable
    \/ create_multicast_socket
    \/ multicast_send_using
    \/ recv_from_Ok
    \/ recv_from_Err
    \/ Convert
    \/ Notify_assign

SpecOrder ==
    InitNotify /\ [][NextOrder]_vars

InitFn ==
    /\ pc = "idle"
    /\ op = [name |-> "none", device_address |-> <<>>, next_boot_id |-> U32(0, 0)]
    /\ options = NoOptions
    /\ request = NoRequest
    /\ to_address = <<>>
    /\ sockets = <<>>
    /\ sent = <<>>
    /\ recvs = 0
    /\ arrived = <<>>
    /\ responses = <<>>
    /\ raw_responses = Pending
    /\ result = Pending
    /\ device = NoDevice
    /\ hist = NoHist
    /\ fn_call \in FnCalls
    /\ fn_ret = None
    /\ clock = 0

NextFn ==
    \/ SearchTarget_fmt
    \/ Parse_rendered
    \/ SearchTarget_FromStr
    \/ ssdp_SearchTarget_FromStr
    \/ UserAgentString
    \/ Response_TryFrom
    \/ HttpuResponse_TryFrom
    \/ Request_ToString
    \/ TypeID_device_from
    \/ TypeID_service_from

SpecFn ==
    InitFn /\ [][NextFn]_vars
-----------------------------------------------------------------------------
(* Properties of the search calls, checked under Spec                      *)

\* C1: when every datagram that arrived is well formed and recv_from then
\* reports WouldBlock, multicast_using returns Ok with exactly one response
\* per datagram, the i-th response being the one of the i-th datagram
\* (nothing dropped, reordered or deduplicated); and well-formed datagrams
\* never make the call fail with a parse error
C1_ResponsesInArrivalOrder ==
    (\A i \in DOMAIN arrived : arrived[i] \in WellFormed)
        => /\ pc = "convert"
                => /\ raw_responses.ok
                   /\ Len(raw_responses.val) = Len(arrived)
                   /\ \A i \in DOMAIN arrived :
                         /\ HTTP_HEADER_USN \in DOMAIN raw_responses.val[i].headers
                         /\ arrived[i] = D_RESPONSE(
                                raw_responses.val[i].headers[HTTP_HEADER_USN])
           /\ pc = "done" => result.err # "MessageFormat"
           /\ pc # "panicked"

\* three well-formed datagrams, the first unlike the second and the last
\* two alike, were received before WouldBlock
C1_Witness ==
    /\ pc = "convert"
    /\ Len(arrived) = 3
    /\ \A i \in DOMAIN arrived : arrived[i] \in WellFormed
    /\ arrived[1] # arrived[2]
    /\ arrived[2] = arrived[3]

\* C2: a datagram that fails HTTPU parsing is skipped: it never fails the
\* call with a parse error, and at WouldBlock the call returns Ok with
\* exactly the well-formed datagrams' responses
C2_MalformedDatagramSkipped ==
    /\ (pc = "done" /\ arrived # <<>>) => result.err # "MessageFormat"
    /\ pc = "convert"
          => /\ raw_responses.ok
             /\ Len(raw_responses.val) =
                   Cardinality({i \in DOMAIN arrived : arrived[i] \in WellFormed})

\* C3: in search, search_once and search_once_to_device, when
\* Options::validate fails the call returns that error, and no socket was
\* created and no datagram sent
C3_ValidationBeforeIO ==
    (op.name \in SearchOps /\ pc # "idle" /\ ~validate(options).ok)
        => /\ sockets = <<>>
           /\ sent = <<>>
           /\ recvs = 0
           /\ pc \in {"validate", "done"}
           /\ pc = "done" => result = validate(options)

\* search_once_to_device has returned the validation error
C3_Witness ==
    /\ pc = "done"
    /\ op.name = "search_once_to_device"
    /\ ~validate(options).ok
    /\ result = validate(options)
    /\ sockets = <<>>

\* C10: the M-SEARCH built by search_once has exactly the headers HOST,
\* MAN, MX and ST for V10, USER-AGENT too from V11, and for V20 also CPFN,
\* CPUUID iff the control point has a uuid and TCPPORT iff it has a port;
\* MX is max_wait_time and ST the rendered search target
C10_SearchHeaderNames ==
    (op.name = "search_once" /\ request # NoRequest)
        => LET v == options.spec_version
               cp == options.control_point[1]
               expected ==
                   {HTTP_HEADER_HOST, HTTP_HEADER_MAN, HTTP_HEADER_MX,
                    HTTP_HEADER_ST}
                   \cup (IF v \in {V11, V20} THEN {HTTP_HEADER_USER_AGENT} ELSE {})
                   \cup (IF v = V20 THEN {HTTP_HEADER_CP_FN} ELSE {})
                   \cup (IF v = V20 /\ cp.uuid # None
                         THEN {HTTP_HEADER_CP_UUID} ELSE {})
                   \cup (IF v = V20 /\ cp.port # None
                         THEN {HTTP_HEADER_TCP_PORT} ELSE {})
           IN  /\ DOMAIN request.headers = expected
               /\ request.headers[HTTP_HEADER_MX] = to_string(options.max_wait_time)
               /\ request.headers[HTTP_HEADER_ST] =
                     SearchTarget_to_string(options.search_target)
               /\ \A i \in DOMAIN sent : sent[i].request = request

\* a V2.0 M-SEARCH of a control point with a uuid and no port was sent
C10_Witness ==
    /\ op.name = "search_once"
    /\ options.spec_version = V20
    /\ options.control_point # None
    /\ options.control_point[1].uuid # None
    /\ options.control_point[1].port = None
    /\ Len(sent) = 1
    /\ sent[1].request = request
    /\ HTTP_HEADER_CP_UUID \in DOMAIN request.headers

-----------------------------------------------------------------------------
(* Properties of the notify calls, checked under SpecNotify                *)

\* C4: after any sequence of device_available, device_update and
\* device_unavailable calls, boot_id is its initial value plus the number
\* of calls that returned Ok
C4_BootIdCountsOkCalls ==
    LET lo == hist.boot0.lo + hist.n_ok
    IN  device.boot_id = U32(hist.boot0.hi + (lo \div 65536), lo % 65536)

\* C5: a NOTIFY emitted under V1.1 or later carries BOOTID.UPNP.ORG equal
\* to boot_id as it was before the call, and when device_update returns Ok
\* the NEXTBOOTID.UPNP.ORG it emitted is that BOOTID + 1 and is the
\* device's boot_id after the call
C5_BootIdBeforeNextAfter ==
    /\ (pc = "sent" /\ options.spec_version >= V11)
          => LET h == sent[Len(sent)].request.headers
             IN  /\ HTTP_HEADER_BOOTID \in DOMAIN h
                 /\ h[HTTP_HEADER_BOOTID] = u32_to_string(hist.before.boot_id)
    /\ (pc = "done" /\ result.ok /\ op.name = "device_update")
          => LET h == sent[Len(sent)].request.headers
                 lo == hist.before.boot_id.lo + 1
                 next == U32(hist.before.boot_id.hi + (lo \div 65536),
                             lo % 65536)
             IN  /\ h[HTTP_HEADER_NEXT_BOOTID] = u32_to_string(next)
                 /\ h[HTTP_HEADER_NEXT_BOOTID] = u32_to_string(device.boot_id)

\* C6: as long as no ssdp:update was emitted, every NOTIFY emitted by
\* device_available and device_unavailable carries the same BOOTID.UPNP.ORG
C6_BootIdReused ==
    (\A i \in DOMAIN sent :
        sent[i].request.headers[HTTP_HEADER_NTS] # NTS_UPDATE)
        => \A i, j \in DOMAIN sent :
              LET hi == sent[i].request.headers
                  hj == sent[j].request.headers
              IN  (HTTP_HEADER_BOOTID \in DOMAIN hi
                   /\ HTTP_HEADER_BOOTID \in DOMAIN hj)
                      => hi[HTTP_HEADER_BOOTID] = hj[HTTP_HEADER_BOOTID]

\* C7: once device_unavailable has succeeded, an ssdp:alive or ssdp:update
\* is emitted for the Device only with a boot_id above the one the byebye
\* carried
C7_DepartedUntilBumped ==
    (pc = "sent" /\ op.name \in {"device_available", "device_update"}
     /\ hist.byebye # None)
        => \/ hist.byebye[1].hi < device.boot_id.hi
           \/ /\ hist.byebye[1].hi = device.boot_id.hi
              /\ hist.byebye[1].lo < device.boot_id.lo

-----------------------------------------------------------------------------
(* Properties of the conversions, checked under SpecFn                     *)

\* C8: parsing the rendered string of a SearchTarget of any of the seven
\* shapes succeeds and yields that SearchTarget
C8_SearchTargetRoundTrip ==
    (fn_call.fn = "from_str" /\ fn_call.of # None /\ fn_ret # None)
        => fn_ret[1] = Ok(fn_call.of[1])

\* C9: urn:{domain}:device:{rest} parses to DomainDeviceType(domain, rest)
\* and urn:{domain}:service:{rest} to DomainServiceType(domain, rest), for
\* a colon-free domain other than schemas-upnp-org and a non-empty rest
C9_DomainUrnParsed ==
    (fn_call.fn = "from_str" /\ fn_ret # None)
        => \A dom \in TargetDomains, rest \in TargetTypes :
              /\ fn_call.arg = ST_URN \o dom \o <<":">> \o ST_DEVICE \o <<":">> \o rest
                    => fn_ret[1] = Ok(DomainDeviceType(dom, rest))
              /\ fn_call.arg = ST_URN \o dom \o <<":">> \o ST_SERVICE \o <<":">> \o rest
                    => fn_ret[1] = Ok(DomainServiceType(dom, rest))

C13_ControlPointRequired ==
    (/\ op.name \in SearchOps /\ pc \notin {"idle", "validate"}
     /\ options.max_wait_time \in 1..120
     /\ options.product_and_version \in
           {None, Some(ProductVersion(<<"p">>, <<"1",".","0">>))})
        => LET v == options.spec_version
               cp == options.control_point
               failed == pc = "done" /\ sockets = <<>> /\ result.source = "Field"
           IN  /\ (v = V20 /\ cp = None)
                     => /\ pc = "done"
                        /\ result = Err("MissingRequiredValue", "Field",
                                        "ControlPoint")
               /\ (v = V20 /\ cp # None /\ cp[1].friendly_name = <<>>)
                     => (failed /\ ~result.ok)
               /\ (v = V20 /\ cp # None /\ cp[1].friendly_name # <<>>) => ~failed
               /\ v \in {V10, V11} => ~failed

\* a V2.0 search_once without control point was refused
C13_Witness ==
    /\ pc = "done"
    /\ op.name = "search_once"
    /\ options.spec_version = V20
    /\ options.control_point = None
    /\ options.max_wait_time = 1
    /\ result = Err("MissingRequiredValue", "Field", "ControlPoint")

\* C14: search_once_to_device with valid options fails with
\* UnsupportedVersion for V1.0, having created no socket and sent nothing;
\* for V1.1 and V2.0 it builds its request and goes on to send it
C14_UnicastGating ==
    (/\ op.name = "search_once_to_device" /\ pc \notin {"idle", "validate"}
     /\ validate(options).ok)
        => /\ options.spec_version = V10
                => /\ pc \in {"build", "done"}
                   /\ sockets = <<>>
                   /\ sent = <<>>
                   /\ pc = "done"
                         => result = Err("UnsupportedVersion", "none",
                                         SpecVersion_to_string(V10))
           /\ options.spec_version \in {V11, V20}
                => /\ result.err # "UnsupportedVersion"
                   /\ pc # "build" => request # NoRequest
                   /\ \A i \in DOMAIN sent : sent[i].to = op.device_address

\* a V1.0 unicast search with valid options was refused
C14_Witness ==
    /\ op.name = "search_once_to_device"
    /\ options.spec_version = V10
    /\ pc = "done"
    /\ result.err = "UnsupportedVersion"
    /\ sent = <<>>

\* C11: user_agent_string returns the platform token, then UPnP/{spec},
\* then the caller's product or the default product, separated by single
\* spaces
C11_UserAgentTokenOrder ==
    (fn_call.fn = "user_agent_string" /\ fn_ret # None)
        => fn_ret[1] =
              PLATFORM_NAME \o <<"/">> \o PLATFORM_VERSION \o <<" ">>
                  \o UPNP_STRING \o <<"/">>
                  \o SpecVersion_to_string(fn_call.arg.spec_version) \o <<" ">>
                  \o (IF fn_call.arg.product # None
                      THEN fn_call.arg.product[1].name \o <<"/">>
                               \o fn_call.arg.product[1].version
                      ELSE DEFAULT_PRODUCT_NAME \o <<"/">>
                               \o DEFAULT_PRODUCT_VERSION)

\* C15: converting a raw response in which at least one of CACHE-CONTROL,
\* DATE, EXT, LOCATION, SERVER, ST, USN is absent fails with
\* MissingRequiredValue(Header, names), the names being all the absent ones
C15_MissingHeadersReported ==
    (fn_call.fn = "try_from" /\ fn_ret # None)
        => LET absent == {h \in Range(REQUIRED_HEADERS_V10) :
                             h \notin DOMAIN fn_call.arg.headers}
           IN  absent # {}
                   => /\ ~fn_ret[1].ok
                      /\ fn_ret[1].err = "MissingRequiredValue"
                      /\ fn_ret[1].source = "Header"
                      /\ fn_ret[1].name = absent

\* C16: a response with the required headers whose SERVER value is not three
\* name/version pairs is rejected with InvalidValue(Header, SERVER); one
\* whose value is yields platform, upnp and product from pairs 1, 2 and 3
C16_ServerHeaderRejected ==
    (/\ fn_call.fn = "try_from" /\ fn_ret # None
     /\ Range(REQUIRED_HEADERS_V10) \subseteq DOMAIN fn_call.arg.headers)
        => LET captures == UA_ALL_captures(
                               fn_call.arg.headers[HTTP_HEADER_SERVER])
           IN  /\ captures = None
                     => fn_ret[1] = Err("InvalidValue", "Header", "SERVER")
               /\ (captures # None /\ fn_ret[1].ok)
                     => /\ fn_ret[1].val.versions.platform = captures[1][1]
                        /\ fn_ret[1].val.versions.upnp = captures[1][2]
                        /\ fn_ret[1].val.versions.product = captures[1][3]

\* C17: in a converted response boot_id, config_id and search_port come
\* from the headers only when the UPnP token of SERVER is exactly 2.0; for
\* any other token they are 0, None and None and no BOOTID value fails the
\* conversion. For 2.0 a missing BOOTID gives 0, an unparsable BOOTID fails
\* the conversion, an unparsable CONFIGID or SEARCHPORT gives None
C17_V20HeadersOnlyForV20 ==
    (/\ fn_call.fn = "try_from" /\ fn_ret # None
     /\ Range(REQUIRED_HEADERS_V10) \subseteq DOMAIN fn_call.arg.headers
     /\ UA_ALL_captures(fn_call.arg.headers[HTTP_HEADER_SERVER]) # None)
        => LET h == fn_call.arg.headers
               token == UA_ALL_captures(h[HTTP_HEADER_SERVER])[1][2].version
               r == fn_ret[1]
               Held(k) == k \in DOMAIN h
               boot == u64_from_str(h[HTTP_HEADER_BOOTID])
               config == u64_from_str(h[HTTP_HEADER_CONFIGID])
               port == u16_parse(h[HTTP_HEADER_SEARCH_PORT])
           IN  /\ token # <<"2",".","0">>
                     => /\ r.err # "MessageFormat"
                        /\ r.ok => /\ r.val.boot_id = <<"0">>
                                   /\ r.val.config_id = None
                                   /\ r.val.search_port = None
               /\ token = <<"2",".","0">>
                     => /\ ~Held(HTTP_HEADER_BOOTID)
                              => /\ r.err # "MessageFormat"
                                 /\ r.ok => r.val.boot_id = <<"0">>
                        /\ (Held(HTTP_HEADER_BOOTID) /\ ~boot.ok)
                              => r = Err("MessageFormat", "none",
                                         "InvalidFieldValue")
                        /\ (Held(HTTP_HEADER_BOOTID) /\ boot.ok)
                              => /\ r.err # "MessageFormat"
                                 /\ r.ok => r.val.boot_id = boot.val
                        /\ r.ok
                              => /\ r.val.config_id =
                                       IF Held(HTTP_HEADER_CONFIGID) /\ config.ok
                                       THEN Some(config.val) ELSE None
                                 /\ r.val.search_port =
                                       IF Held(HTTP_HEADER_SEARCH_PORT) /\ port.ok
                                       THEN Some(port.val) ELSE None

\* a 2.0 response with BOOTID 7, an unparsable CONFIGID and SEARCHPORT 70000
\* was converted
C17_Witness ==
    /\ fn_call.fn = "try_from" /\ fn_ret # None
    /\ fn_ret[1].ok
    /\ fn_ret[1].val.versions.upnp.version = <<"2",".","0">>
    /\ HTTP_HEADER_CONFIGID \in DOMAIN fn_call.arg.headers
    /\ fn_call.arg.headers[HTTP_HEADER_CONFIGID] = <<"x">>
    /\ HTTP_HEADER_SEARCH_PORT \in DOMAIN fn_call.arg.headers
    /\ fn_call.arg.headers[HTTP_HEADER_SEARCH_PORT] = <<"7","0","0","0","0">>
    /\ fn_ret[1].val.boot_id = <<"7">>
    /\ fn_ret[1].val.config_id = None
    /\ fn_ret[1].val.search_port = None

\* C18: for a datagram whose first line is HTTP/<version> <digits> <message>
\* the parse returns Ok only when the code is 200 and otherwise the
\* InvalidResponseStatus error, for every digit string, codes above 65535
\* included, and never aborts
C18_StatusCodeChecked ==
    (fn_call.fn = "response_try_from" /\ fn_ret # None)
        => LET is200 == Canonical(fn_call.of[1]) = <<"2","0","0">>
           IN  /\ fn_ret[1].err # "panic"
               /\ fn_ret[1].ok <=> is200
               /\ ~is200 => fn_ret[1] = Err("MessageFormat", "none",
                                            "InvalidResponseStatus")

\* the header lines of C19: "NAME: VALUE" CRLF for each key in turn
RECURSIVE C19_HeaderLines(_, _)
C19_HeaderLines(headers, keys) ==
    IF keys = <<>> THEN <<>>
    ELSE Head(keys) \o <<":", " ">> \o headers[Head(keys)] \o <<"\r", "\n">>
             \o C19_HeaderLines(headers, Tail(keys))

\* C19: the string emitted for a Request is METHOD SP RESOURCE SP HTTP/1.1
\* CRLF (resource * when absent), then one "NAME: VALUE" CRLF line per
\* header in some order, then a blank CRLF, for every header map, the empty
\* one included
C19_RequestWireFormat ==
    (fn_call.fn = "request_to_string" /\ fn_ret # None)
        => LET rq == fn_call.arg
               line == rq.message \o <<" ">>
                           \o (IF rq.resource = None THEN <<"*">>
                               ELSE rq.resource[1])
                           \o <<" ","H","T","T","P","/","1",".","1","\r","\n">>
           IN  \E keys \in KeyOrders(rq.headers) :
                  fn_ret[1] = line \o C19_HeaderLines(rq.headers, keys)
                                   \o <<"\r", "\n">>

-----------------------------------------------------------------------------
(* The response cache, checked under Spec                                  *)

\* C20: search(options) with valid options runs the search and returns a
\* cache seeded from its responses, which refresh can then merge into: it
\* creates its socket and fails only as search_once may fail
C20_SearchSeedsCache ==
    (op.name = "search" /\ pc = "done" /\ validate(options).ok)
        => /\ sockets # <<>>
           /\ result.err # "UnsupportedOperation"


-----------------------------------------------------------------------------
(* Claims about time, the receive loop and the order of transport steps    *)

\* C21: a search is answered in bounded time: once multicast_using has
\* returned, no more than max_wait_time seconds plus the processing of one
\* packet (one second is allowed for it) have passed since the M-SEARCH was
\* sent, however many datagrams arrived and whenever they did
C21_BoundedResponse ==
    raw_responses # Pending =>
        clock <= options.max_wait_time + 1

\* C22: the failures of recv_from are classified: a read timeout, reported
\* as WouldBlock or as TimedOut, ends the receive loop with Ok(the responses
\* collected so far) and is never returned as a NetworkTransport error
C22_RecvFailureClassified ==
    /\ pc = "convert" => raw_responses = Ok(responses)
    /\ raw_responses.err = "NetworkTransport" =>
          raw_responses.name \notin ReadTimeoutKinds

\* C23: the transport steps of a call are ordered: a call sends at most one
\* datagram; a search call makes no recv_from before its send has
\* succeeded, and has sent exactly one datagram whenever it receives or
\* returns Ok; a failed send returns NetworkTransport with nothing received;
\* a notify call sends exactly one datagram before it returns Ok and never
\* calls recv_from
C23_SendBeforeReceive ==
    /\ Len(sent) <= 1
    /\ recvs > 0 => op.name \in SearchOps /\ Len(sent) = 1
    /\ pc \in {"recv", "convert", "sent"} => Len(sent) = 1
    /\ (pc = "done" /\ result.ok) => Len(sent) = 1
    /\ result = NetworkTransport("send_to") => recvs = 0 /\ sent = <<>>
    /\ op.name \notin SearchOps => recvs = 0 /\ arrived = <<>>
    /\ sent # <<>> => sent[1] = [request |-> request, to |-> to_address]

\* a search has returned Ok after one send and three recv_from calls
C23_Witness ==
    /\ pc = "done" /\ op.name = "search_once" /\ result.ok
    /\ Len(sent) = 1 /\ recvs = 3

-----------------------------------------------------------------------------
(* Claims about the Device of the notify functions                         *)

\* C24: a notify function that returns an error leaves the Device as it was
\* when the function was called: boot_id and every other field keep their
\* values when socket creation or the send fails, and when device_update is
\* refused for V1.0
C24_ErrorLeavesDevice ==
    (pc = "done" /\ ~result.ok) => device = hist.before

\* a call has failed on a Device whose boot_id an earlier call advanced
C24_Witness ==
    /\ pc = "done" /\ result.err = "NetworkTransport"
    /\ hist.n_ok >= 1
    /\ device = hist.before /\ device.boot_id # hist.boot0

\* a < b for two decimal numbers written without leading zeros
C27_DecimalLess(a, b) ==
    \/ Len(a) < Len(b)
    \/ /\ Len(a) = Len(b)
       /\ \E i \in 1..Len(a) :
             /\ DigitVal(a[i]) < DigitVal(b[i])
             /\ \A j \in 1..(i - 1) : a[j] = b[j]

\* 2^31 - 1 in decimal
C27_INT31_MAX ==
    <<"2","1","4","7","4","8","3","6","4","7">>

\* C27: the BOOTID arithmetic stays in range: boot_id + 1 never overflows,
\* the boot_id of the Device never decreases, every BOOTID.UPNP.ORG and
\* NEXTBOOTID.UPNP.ORG emitted is at most 2^31 - 1, and an emitted
\* NEXTBOOTID.UPNP.ORG is greater than the BOOTID.UPNP.ORG beside it
C27_BootIdInRange ==
    /\ pc # "panicked"
    /\ ~C27_DecimalLess(u32_to_string(device.boot_id),
                        u32_to_string(hist.before.boot_id))
    /\ \A i \in DOMAIN sent :
          LET h == sent[i].request.headers
          IN  /\ HTTP_HEADER_BOOTID \in DOMAIN h
                    => ~C27_DecimalLess(C27_INT31_MAX, h[HTTP_HEADER_BOOTID])
              /\ HTTP_HEADER_NEXT_BOOTID \in DOMAIN h
                    => /\ ~C27_DecimalLess(C27_INT31_MAX,
                                           h[HTTP_HEADER_NEXT_BOOTID])
                       /\ C27_DecimalLess(h[HTTP_HEADER_BOOTID],
                                          h[HTTP_HEADER_NEXT_BOOTID])

-----------------------------------------------------------------------------
(* Claims about the requests of a search                                   *)

\* C25: whatever search_once_to_device sends is one M-SEARCH, sent for V1.1
\* or V2.0 only, whose header names are exactly HOST, MAN, ST and
\* USER-AGENT (no MX, for V2.0 as well), addressed to the caller's
\* device_address and never to the multicast address; once the send has
\* succeeded exactly one datagram has been sent
C25_UnicastRequest ==
    op.name = "search_once_to_device" =>
        /\ \A i \in DOMAIN sent :
              /\ options.spec_version >= V11
              /\ sent[i].request.message = HTTP_METHOD_SEARCH
              /\ DOMAIN sent[i].request.headers =
                    {HTTP_HEADER_HOST, HTTP_HEADER_MAN, HTTP_HEADER_ST,
                     HTTP_HEADER_USER_AGENT}
              /\ sent[i].to = op.device_address
              /\ sent[i].to # MULTICAST_ADDRESS
        /\ Len(sent) <= 1
        /\ pc \in {"recv", "convert"} => Len(sent) = 1

\* a V2.0 unicast search has sent its request to the device
C25_Witness ==
    /\ op.name = "search_once_to_device"
    /\ options.spec_version = V20
    /\ Len(sent) = 1
    /\ HTTP_HEADER_MX \notin DOMAIN sent[1].request.headers
    /\ pc = "recv"

\* C26: the headers of a Request are serialized in the order in which
\* add_header first inserted their names, so that the same sequence of
\* add_header calls always gives the same bytes
C26_HeadersInInsertionOrder ==
    (fn_call.fn = "request_to_string" /\ fn_ret # None)
        => LET rq == fn_call.arg
               inserted == SubSeq(AddHeaderOrder, 1,
                                  Cardinality(DOMAIN rq.headers))
           IN  fn_ret[1] = Request_to_string(rq, inserted)

-----------------------------------------------------------------------------
(* Claims about the conversion of responses                                *)

\* C28: the conversion of a raw response into a search Response is total:
\* for every header map it returns Ok or an Error and never aborts; a
\* response with CACHE-CONTROL but without EXT or SERVER is rejected with
\* an Error
C28_ConversionTotal ==
    (fn_call.fn = "try_from" /\ fn_ret # None)
        => LET headers == DOMAIN fn_call.arg.headers
           IN  /\ fn_ret[1].err # "panic"
               /\ (/\ HTTP_HEADER_CACHE_CONTROL \in headers
                   /\ \/ HTTP_HEADER_EXT \notin headers
                      \/ HTTP_HEADER_SERVER \notin headers)
                     => ~fn_ret[1].ok

\* C29: search_once is all-or-nothing over the datagrams it received: once
\* the receive loop has ended normally the call returns; when it returns Ok
\* the result holds one search Response per datagram received, the i-th
\* converted from the i-th datagram; when a received response fails
\* conversion the call returns the error of that response and no responses
C29_AllOrNothing ==
    raw_responses.ok
        => /\ pc # "panicked"
           /\ Len(raw_responses.val) = Len(arrived)
           /\ \A i \in DOMAIN arrived :
                 Ok(raw_responses.val[i]) = Response_try_from(arrived[i])
           /\ (pc = "done" /\ result.ok)
                 => /\ Len(result.val) = Len(arrived)
                    /\ \E uris \in SUBSET UriValues(raw_responses.val) :
                          \A i \in DOMAIN arrived :
                             Ok(result.val[i]) = SearchResponse_try_from(
                                                     raw_responses.val[i], uris)
           /\ (pc = "done" /\ ~result.ok)
                 => /\ result.val = None
                    /\ \E uris \in SUBSET UriValues(raw_responses.val) :
                          \E i \in DOMAIN arrived :
                             result = SearchResponse_try_from(
                                          raw_responses.val[i], uris)

-----------------------------------------------------------------------------
(* Claims about TypeID                                                     *)

\* C30: TypeID agrees with SearchTarget on the wire form: for a type string
\* name:version, TypeID::device_from of a DeviceType or DomainDeviceType and
\* TypeID::service_from of a ServiceType or DomainServiceType succeed, the
\* TypeID renders to the URN string the SearchTarget renders to, and for
\* the standard domain it equals new_device(name, version) or
\* new_service(name, version)
C30_TypeIdAgrees ==
    (fn_call.fn \in {"device_from", "service_from"} /\ fn_ret # None)
        => LET st == fn_call.arg
               kind == IF fn_call.fn = "device_from" THEN "Device"
                       ELSE "Service"
               s == IF st.tag = kind \o "Type" THEN st.a ELSE st.b
               sep == IndexOf(s, ":")
               name == Take(s, sep - 1)
               version == Drop(s, sep)
           IN  (/\ st.tag \in {kind \o "Type", "Domain" \o kind \o "Type"}
                /\ sep >= 2 /\ version # <<>>)
                  => /\ fn_ret[1].ok
                     /\ TypeID_to_string(fn_ret[1].val)
                            = SearchTarget_to_string(st)
                     /\ st.tag = "DeviceType"
                            => fn_ret[1].val = new_device(name, version)
                     /\ st.tag = "ServiceType"
                            => fn_ret[1].val = new_service(name, version)
====
